---------------------------- MODULE Spec2Model ----------------------------
(***************************************************************************)
(* A model of the cli-toolkit metadata reader (MaximumOverflow/CLIR):      *)
(*   - the byte cursor            raw/byte_stream.rs   (ByteStream)        *)
(*   - the blob heap              raw/metadata/heaps.rs (BlobHeap)         *)
(*   - coded indices and tokens   raw/metadata/indices.rs                  *)
(*   - the tables heap widths     raw/metadata/heaps.rs (TableHeap)        *)
(*   - RVA resolution             raw/assembly.rs      (resolve_rva)       *)
(* Each component has its own specification (SpecStream, SpecBlob, ...);   *)
(* the variables of the other components stay at their idle values.        *)
(***************************************************************************)
EXTENDS Integers, Sequences, FiniteSets, TLC

VARIABLES
    bytes,           \* ByteStream.bytes: the borrowed buffer
    base,            \* address of bytes[0] modulo the largest alignment
    overflowChecks,  \* build profile: TRUE = overflow-checks on (debug)
    position,        \* ByteStream.position
    res,             \* outcome of the last ByteStream operation
    blobBytes,       \* BlobHeap.bytes: the #Blob stream
    blobRes,         \* outcome of the last BlobHeap::get_blob
    ci,              \* the CodedIndex at hand: Option<CodedIndex> and where it came from
    tok,             \* outcome of the last CodedIndex::decode
    valid,           \* TableHeap: the bits set in the valid mask
    rows,            \* TableHeap::rows(): the row-count vector
    width,           \* outcome of the last index-width query
    rowCount,        \* outcome of the last TableHeap::row_count
    sections,        \* the section headers of the PE image
    rva,             \* the RVA handed to resolve_rva
    offset,          \* outcome of resolve_rva
    view,            \* a table view: its column widths and its slice of the #~ stream
    viewIter,        \* the table view iterator: reader position, items yielded, exhausted
    viewRow,         \* outcome of the last MetadataTable::get
    layout,          \* how the image was built: the variants chosen and the cut offset
    image,           \* the bytes handed to Assembly::try_from
    opened,          \* outcome of Assembly::try_from
    heapRes,         \* outcome of the last get_heap
    stringBytes,     \* the bytes of the #Strings heap
    stringRes,       \* outcome of the last get_string
    rowSizes,        \* bytes per row of each table kind with a schema (calc_row_size)
    heapLen,         \* length of the #~ stream in bytes
    got,             \* outcome of the last get_table
    typeDefs,        \* the rows of the TypeDef table: their fields and methods indices
    fieldLen,        \* len() of the Field table
    methodLen,       \* len() of the MethodDef table
    types,           \* the types read so far (Assembly::types)
    typeRes,         \* error of the last read_type_definition
    assRef,          \* one AssemblyRef row: its public_key and hash_value blob indices
    dependency,      \* the AssemblyRef pushed to assembly.dependencies for the row
    iters,           \* the iterators made by view.iter(): each its own cursor and the items it yielded
    heapSizes,       \* TableHeap.heap_sizes: the index widths of #Strings, #GUID, #Blob
    rowIter,         \* an iterator over the rows of the table got
    rootLayout,      \* the metadata root read: stream names, version, declared length
    rootHeader,      \* the result of MetadataHeader::new
    rootIter,        \* a StreamHeaderIterator over the stream headers
    known,           \* the files AssemblyReader::new found, in the order of self.assemblies
    entries,         \* AssemblyEntry of each: NotLoaded or Loaded
    callStack,       \* the frames of read_assembly: entry index and next dependency
    loads,           \* how often each file was read
    readResult,      \* the call of read_assembly by the user and what it returned
    calls            \* calls made by the user

streamVars == <<bytes, base, overflowChecks, position, res>>
blobVars == <<blobBytes, blobRes>>
codedVars == <<ci, tok>>
heapVars == <<valid, rows, width, rowCount>>
rvaVars == <<sections, rva, offset>>
tableVars == <<view, viewIter, viewRow>>
imageVars == <<layout, image, opened, heapRes>>
stringVars == <<stringBytes, stringRes>>
getTableVars == <<rowSizes, heapLen, got>>
typesVars == <<typeDefs, fieldLen, methodLen, types, typeRes>>
refsVars == <<assRef, dependency>>
readersVars == <<iters>>
rowsVars == <<heapSizes, rowIter>>
rootVars == <<rootLayout, rootHeader, rootIter>>
loadVars == <<known, entries, callStack, loads, readResult, calls>>

-----------------------------------------------------------------------------
(* Bounds of the model *)

\* longest buffer handed to ByteStream::new
MaxLen == 3
\* longest #Blob stream
MaxBlobLen == 4
\* coded values 0 .. MaxCoded are all read and decoded
MaxCoded == 127
\* most tables present in a tables heap
MaxTables == 2
\* most rows of a table view
MaxTableRows == 2
\* most iterators over one table view
MaxIters == 2
\* most TypeDef rows
MaxTypeDefs == 2
\* most rows of the Field and MethodDef tables
MaxOwned == 2
\* longest string heap
MaxStringLen == 4
\* most AssemblyRef rows of a known assembly
MaxDeps == 2
\* most calls of read_assembly by the user
MaxCalls == 2
\* the frames of read_assembly the stack has room for
MaxDepth == 4
\* most stream headers of a metadata root
MaxStreams == 2
\* most section headers of an image
MaxSections == 2

\* usize arithmetic is modular.  The checker evaluates in 32-bit integers, so
\* usize is modelled with 29 bits instead of 64: every length, offset and
\* count the reader handles fits, and a sum of two values still evaluates.
UsizeMod == 2 ^ 29

\* byte values the buffers are built from: NUL, an ASCII byte, a byte that
\* never occurs in UTF-8
ByteSample == {0, 1, 255}
\* addresses of the buffer start, modulo the alignment
BaseSample == {0, 1}
\* (size_of::<T>(), align_of::<T>()) of the element types read: u8, u16, u32
TypeSample == {<<1, 1>>, <<2, 2>>, <<4, 4>>}

RECURSIVE SeqsUpTo(_, _)
SeqsUpTo(S, n) ==
    IF n = 0 THEN {<<>>}
    ELSE LET shorter == SeqsUpTo(S, n - 1)
         IN  shorter \cup {Append(s, x) : s \in {t \in shorter : Len(t) = n - 1}, x \in S}

Buffers == SeqsUpTo(ByteSample, MaxLen)
\* usize arguments tried: the small ones around the buffer length and the
\* largest ones
Usize == (0 .. MaxLen + 1) \cup {UsizeMod - k : k \in 1 .. MaxLen + 1}

-----------------------------------------------------------------------------
(* usize arithmetic.  `a + b` and `a * b` on usize panic on overflow when  *)
(* overflow checks are compiled in and wrap otherwise.                     *)

AddOverflows(a, b) == a + b >= UsizeMod
WrapAdd(a, b) == (a + b) % UsizeMod
\* size * count for an element size of 1, 2 or 4, by repeated addition
MulOverflows(size, count) == count > (UsizeMod - 1) \div size
RECURSIVE WrapMul(_, _)
WrapMul(size, count) ==
    IF size = 0 THEN 0 ELSE WrapAdd(WrapMul(size - 1, count), count)

\* the bytes of b in the half-open range [from, to), clipped to the buffer
Slice(b, from, to) ==
    SubSeq(b, from + 1, IF to > Len(b) THEN Len(b) ELSE to)

Ok(pos, val) == [position |-> pos, err |-> "None", val |-> val, oob |-> FALSE]
Err(pos, e)  == [position |-> pos, err |-> e, val |-> <<>>, oob |-> FALSE]
Panic(pos)   == Err(pos, "Panic")

-----------------------------------------------------------------------------
(* ByteStream operations: each returns the new position and the result.    *)

\* ByteStream::seek
seek(b, pos, p) ==
    IF p < Len(b) THEN Ok(p, <<pos>>)
    ELSE Err(pos, "OffsetOutOfBounds")

\* skip with the end-of-buffer test left out
skip_unchecked(b, pos, count, oc) ==
    IF AddOverflows(pos, count) /\ oc THEN Panic(pos)
    ELSE Ok(WrapAdd(pos, count), <<pos>>)

\* ByteStream::skip
skip(b, pos, count, oc) ==
    IF AddOverflows(pos, count) /\ oc THEN Panic(pos)
    ELSE IF WrapAdd(pos, count) > Len(b) THEN Err(pos, "UnexpectedEndOfStream")
    ELSE Ok(WrapAdd(pos, count), <<pos>>)

\* ByteStream::read::<T>, size = size_of::<T>()
read(b, pos, size, oc) ==
    IF AddOverflows(pos, size) /\ oc THEN Panic(pos)
    ELSE IF WrapAdd(pos, size) > Len(b) THEN Err(pos, "UnexpectedEndOfStream")
    ELSE Ok(WrapAdd(pos, size), Slice(b, pos, pos + size))

\* ByteStream::read_checked::<T>; check is the predicate's verdict on the value
read_checked(b, pos, size, check, oc) ==
    LET r == read(b, pos, size, oc)
    IN  IF r.err # "None" THEN r
        ELSE IF check THEN r
        ELSE Err(r.position, "InvalidData")

\* ByteStream::read_ref::<T>
read_ref(b, pos, size, align, ba, oc) ==
    IF AddOverflows(pos, size) /\ oc THEN Panic(pos)
    ELSE IF WrapAdd(pos, size) > Len(b) THEN Err(pos, "UnexpectedEndOfStream")
    ELSE IF (ba + pos) % align # 0 THEN Err(pos, "UnalignedRead")
    ELSE Ok(WrapAdd(pos, size), Slice(b, pos, pos + size))

\* ByteStream::read_slice::<T>
read_slice(b, pos, size, align, count, ba, oc) ==
    IF (MulOverflows(size, count) \/ AddOverflows(pos, WrapMul(size, count))) /\ oc
    THEN Panic(pos)
    ELSE LET total == WrapMul(size, count)
             end   == WrapAdd(pos, total)
         IN  IF end > Len(b) THEN Err(pos, "UnexpectedEndOfStream")
             ELSE IF (ba + pos) % align # 0 THEN Err(pos, "UnalignedRead")
             ELSE \* slice::from_raw_parts(ptr, count): count elements from pos,
                  \* whether or not they lie inside the buffer
                  LET wrapped == MulOverflows(size, count) \/ AddOverflows(pos, total)
                  IN  [position |-> end, err |-> "None",
                       val |-> Slice(b, pos, IF wrapped THEN Len(b) ELSE end),
                       oob |-> wrapped]

\* read_u8_slice_until that returns the rest of the buffer when the byte is
\* never found
read_u8_slice_until_or_end(b, pos, byte) ==
    LET hits == {i \in pos + 1 .. Len(b) : b[i] = byte}
    IN  IF hits # {}
        THEN LET first == CHOOSE i \in hits : \A j \in hits : i <= j
             IN  Ok(first, Slice(b, pos, first))
        ELSE Ok(Len(b), Slice(b, pos, Len(b)))

\* ByteStream::read_u8_slice_until
read_u8_slice_until(b, pos, byte) ==
    LET hits == {i \in pos + 1 .. Len(b) : b[i] = byte}
    IN  IF hits # {}
        THEN LET first == CHOOSE i \in hits : \A j \in hits : i <= j
             IN  Ok(first, Slice(b, pos, first))
        ELSE \* the loop advanced position once per byte before failing
             Err(Len(b), "UnexpectedEndOfStream")

\* std::str::from_utf8 on the sampled bytes: ASCII is valid, 0xFF never is
IsUtf8(s) == \A i \in 1 .. Len(s) : s[i] < 128

\* ByteStream::read_null_terminated_str
read_null_terminated_str(b, pos) ==
    LET r == read_u8_slice_until(b, pos, 0)
    IN  IF r.err # "None" THEN r
        ELSE LET s == SubSeq(r.val, 1, Len(r.val) - 1)
             IN  IF IsUtf8(s) THEN Ok(r.position, s)
                 ELSE Err(r.position, "InvalidData")

-----------------------------------------------------------------------------
(* The ByteStream state machine *)

\* the components a ByteStream operation leaves alone
notStream == <<blobVars, codedVars, heapVars, rvaVars, tableVars, imageVars, stringVars, getTableVars, typesVars, refsVars, readersVars, rowsVars, rootVars, loadVars>>

NoRes == [op |-> "new", prev |-> 0, n |-> 0, size |-> 0,
          err |-> "None", val |-> <<>>, oob |-> FALSE]

\* what an operation leaves behind: the moved cursor and the returned value
Outcome(op, n, size, r) ==
    [op |-> op, prev |-> position, n |-> n, size |-> size,
     err |-> r.err, val |-> r.val, oob |-> r.oob]

\* ByteStream::new over any buffer, at any address, in either build profile
StreamInit ==
    /\ bytes \in Buffers
    /\ base \in BaseSample
    /\ overflowChecks \in BOOLEAN
    /\ position = 0
    /\ res = NoRes

StreamIdle ==
    /\ bytes = <<>>
    /\ base = 0
    /\ overflowChecks = FALSE
    /\ position = 0
    /\ res = NoRes

Seek ==
    \E p \in Usize :
        LET r == seek(bytes, position, p)
        IN  /\ position' = r.position
            /\ res' = Outcome("seek", p, 0, r)
            /\ UNCHANGED <<bytes, base, overflowChecks>>
        /\ UNCHANGED notStream
            /\ UNCHANGED notStream

Skip ==
    \E c \in Usize :
        LET r == skip(bytes, position, c, overflowChecks)
        IN  /\ position' = r.position
            /\ res' = Outcome("skip", c, 0, r)
            /\ UNCHANGED <<bytes, base, overflowChecks>>
        /\ UNCHANGED notStream
            /\ UNCHANGED notStream

Read ==
    \E t \in TypeSample :
        LET r == read(bytes, position, t[1], overflowChecks)
        IN  /\ position' = r.position
            /\ res' = Outcome("read", 1, t[1], r)
            /\ UNCHANGED <<bytes, base, overflowChecks>>
        /\ UNCHANGED notStream
            /\ UNCHANGED notStream

ReadChecked ==
    \E t \in TypeSample, check \in BOOLEAN :
        LET r == read_checked(bytes, position, t[1], check, overflowChecks)
        IN  /\ position' = r.position
            /\ res' = Outcome("read_checked", 1, t[1], r)
            /\ UNCHANGED <<bytes, base, overflowChecks>>
        /\ UNCHANGED notStream
            /\ UNCHANGED notStream

ReadRef ==
    \E t \in TypeSample :
        LET r == read_ref(bytes, position, t[1], t[2], base, overflowChecks)
        IN  /\ position' = r.position
            /\ res' = Outcome("read_ref", 1, t[1], r)
            /\ UNCHANGED <<bytes, base, overflowChecks>>
        /\ UNCHANGED notStream
            /\ UNCHANGED notStream

ReadSlice ==
    \E t \in TypeSample, c \in Usize :
        LET r == read_slice(bytes, position, t[1], t[2], c, base, overflowChecks)
        IN  /\ position' = r.position
            /\ res' = Outcome("read_slice", c, t[1], r)
            /\ UNCHANGED <<bytes, base, overflowChecks>>
        /\ UNCHANGED notStream
            /\ UNCHANGED notStream

ReadU8SliceUntil ==
    \E byte \in ByteSample :
        LET r == read_u8_slice_until(bytes, position, byte)
        IN  /\ position' = r.position
            /\ res' = Outcome("read_u8_slice_until", byte, 1, r)
            /\ UNCHANGED <<bytes, base, overflowChecks>>
        /\ UNCHANGED notStream
            /\ UNCHANGED notStream

ReadNullTerminatedStr ==
    LET r == read_null_terminated_str(bytes, position)
    IN  /\ position' = r.position
        /\ res' = Outcome("read_null_terminated_str", 0, 1, r)
        /\ UNCHANGED <<bytes, base, overflowChecks>>
        /\ UNCHANGED notStream

StreamNext ==
    \/ Seek
    \/ Skip
    \/ Read
    \/ ReadChecked
    \/ ReadRef
    \/ ReadSlice
    \/ ReadU8SliceUntil
    \/ ReadNullTerminatedStr

-----------------------------------------------------------------------------
(* Bit operations on unsigned integers *)

RECURSIVE BitAnd(_, _)
BitAnd(a, b) ==
    IF a = 0 \/ b = 0 THEN 0
    ELSE (a % 2) * (b % 2) + 2 * BitAnd(a \div 2, b \div 2)

RECURSIVE BitOr(_, _)
BitOr(a, b) ==
    IF a = 0 THEN b
    ELSE IF b = 0 THEN a
    ELSE (IF a % 2 = 1 \/ b % 2 = 1 THEN 1 ELSE 0) + 2 * BitOr(a \div 2, b \div 2)

\* x << k, for operands whose shifted value needs no more than 31 bits
Shl(x, k) == x * 2 ^ k
\* x >> k
Shr(x, k) == x \div 2 ^ k

-----------------------------------------------------------------------------
(* BlobHeap *)

\* byte values the #Blob streams are built from: the first bytes of the three
\* prefix forms at both ends of their ranges, the invalid range 0xE0..0xFF,
\* and small values for lengths and payload
BlobByteSample == {0, 1, 64, 127, 128, 191, 192, 223, 224, 255}
BlobHeaps == SeqsUpTo(BlobByteSample, MaxBlobLen)
\* heap indices asked for: inside the heap, its length, and beyond
BlobIndexSample == 0 .. MaxBlobLen + 1

BlobOut(r, length) ==
    [err |-> r.err, val |-> r.val, length |-> length, position |-> r.position]

\* the 0b110xxxxx arm of the length prefix, read as two further bytes
blob_length_fat(heap, pos, byte_0) ==
    LET r1 == read(heap, pos, 1, FALSE)
    IN  IF r1.err # "None" THEN BlobOut(r1, -1)
        ELSE LET r2 == read(heap, r1.position, 1, FALSE)
             IN  IF r2.err # "None" THEN BlobOut(r2, -1)
                 ELSE BlobOut(r2, Shl(BitAnd(byte_0, 63), 16)
                                      + Shl(r1.val[1], 8) + r2.val[1])

\* the `let length = { ... }` block of get_blob: the cursor after the prefix
\* and the decoded length, or the error
blob_length(heap, pos) ==
    LET r0 == read(heap, pos, 1, FALSE)
    IN  IF r0.err # "None" THEN BlobOut(r0, -1)
        ELSE LET byte_0 == r0.val[1]
             IN  IF BitAnd(byte_0, 128) = 0
                 THEN BlobOut(r0, BitAnd(byte_0, 127))
                 ELSE IF BitAnd(byte_0, 192) = 128
                 THEN LET r1 == read(heap, r0.position, 1, FALSE)
                      IN  IF r1.err # "None" THEN BlobOut(r1, -1)
                          ELSE BlobOut(r1, Shl(BitAnd(byte_0, 63), 8) + r1.val[1])
                 ELSE IF BitAnd(byte_0, 224) = 192
                 THEN blob_length_fat(heap, r0.position, byte_0)
                 ELSE BlobOut(Err(r0.position, "InvalidData"), -1)

\* BlobHeap::get_blob
get_blob(heap, index) ==
    LET s == seek(heap, 0, index)
    IN  IF s.err # "None" THEN BlobOut(s, -1)
        ELSE LET l == blob_length(heap, s.position)
             IN  IF l.err # "None" THEN l
                 ELSE BlobOut(read_slice(heap, l.position, 1, 1, l.length, 0, FALSE),
                              l.length)

NoBlobRes == [op |-> "new", index |-> 0, err |-> "None", val |-> <<>>,
              length |-> -1, position |-> 0]

\* MetadataHeap::new over any #Blob stream
BlobInit ==
    /\ blobBytes \in BlobHeaps
    /\ blobRes = NoBlobRes

BlobIdle ==
    /\ blobBytes = <<>>
    /\ blobRes = NoBlobRes

GetBlob ==
    \E index \in BlobIndexSample :
        LET r == get_blob(blobBytes, index)
        IN  /\ blobRes' = [op |-> "get_blob", index |-> index, err |-> r.err,
                           val |-> r.val, length |-> r.length,
                           position |-> r.position]
            /\ UNCHANGED blobBytes
            /\ UNCHANGED <<streamVars, codedVars, heapVars, rvaVars, tableVars, imageVars, stringVars, getTableVars, typesVars, refsVars, readersVars, rowsVars, rootVars, loadVars>>

-----------------------------------------------------------------------------
(* Metadata tokens and coded indices *)

\* enum MetadataTokenKind: the discriminant is the table tag in the high byte
MetadataTokenKind ==
    [Module |-> Shl(0, 24), TypeRef |-> Shl(1, 24), TypeDef |-> Shl(2, 24),
     Field |-> Shl(4, 24), Method |-> Shl(6, 24), Param |-> Shl(8, 24),
     InterfaceImpl |-> Shl(9, 24), MemberRef |-> Shl(10, 24),
     CustomAttribute |-> Shl(12, 24), Permission |-> Shl(14, 24),
     Signature |-> Shl(17, 24), Event |-> Shl(20, 24), Property |-> Shl(23, 24),
     ModuleRef |-> Shl(26, 24), TypeSpec |-> Shl(27, 24), Assembly |-> Shl(32, 24),
     AssemblyRef |-> Shl(35, 24), File |-> Shl(38, 24), ExportedType |-> Shl(39, 24),
     ManifestResource |-> Shl(40, 24), GenericParam |-> Shl(42, 24),
     MethodSpec |-> Shl(43, 24), GenericParamConstraint |-> Shl(44, 24),
     Document |-> Shl(48, 24), MethodDebugInformation |-> Shl(49, 24),
     LocalScope |-> Shl(50, 24), LocalVariable |-> Shl(51, 24),
     LocalConstant |-> Shl(52, 24), ImportScope |-> Shl(53, 24),
     StateMachineMethod |-> Shl(54, 24), CustomDebugInformation |-> Shl(55, 24),
     String |-> Shl(112, 24)]

TokenKinds == DOMAIN MetadataTokenKind

\* enum CodedIndexKind
CodedIndexKind ==
    {"TypeDefOrRef", "HasConstant", "HasCustomAttribute", "HasFieldMarshal",
     "HasDeclSecurity", "MemberRefParent", "HasSemantics", "MethodDefOrRef",
     "MemberForwarded", "Implementation", "CustomAttributeType",
     "ResolutionScope", "TypeOrMethodDef", "HasCustomDebugInformation"}

Some(v) == [some |-> TRUE, v |-> v]
None == [some |-> FALSE, v |-> 0]

\* MetadataToken::new
MetadataToken_new(index, kind) ==
    IF index = 0 THEN 0 ELSE BitOr(index, MetadataTokenKind[kind])

\* the token-kind array of HasCustomAttribute in CodedIndex::decode
DecodeHasCustomAttribute ==
    <<"Method", "Field", "TypeRef", "TypeDef", "Param", "InterfaceImpl",
      "MemberRef", "Module", "Permission", "Property", "Event", "Signature",
      "ModuleRef", "TypeSpec", "Assembly", "File", "ExportedType",
      "ManifestResource", "GenericParam", "GenericParamConstraint", "MethodSpec">>

\* CodedIndex::decode, per kind: the shift, the tag mask and the array the tag
\* indexes
DecodeArm(kind) ==
    CASE kind = "TypeDefOrRef" ->
            [shift |-> 2, mask |-> 3, kinds |-> <<"TypeDef", "TypeRef", "TypeSpec">>]
      [] kind = "HasConstant" ->
            [shift |-> 2, mask |-> 3, kinds |-> <<"Field", "Param", "Property">>]
      [] kind = "HasCustomAttribute" ->
            [shift |-> 5, mask |-> 31, kinds |-> DecodeHasCustomAttribute]
      [] kind = "HasFieldMarshal" ->
            [shift |-> 1, mask |-> 1, kinds |-> <<"Field", "Param">>]
      [] kind = "HasDeclSecurity" ->
            [shift |-> 2, mask |-> 3, kinds |-> <<"TypeDef", "Method", "Assembly">>]
      [] kind = "MemberRefParent" ->
            [shift |-> 3, mask |-> 7,
             kinds |-> <<"TypeDef", "TypeRef", "ModuleRef", "Method", "TypeSpec">>]
      [] kind = "HasSemantics" ->
            [shift |-> 1, mask |-> 1, kinds |-> <<"Event", "Property">>]
      [] kind = "MethodDefOrRef" ->
            [shift |-> 1, mask |-> 1, kinds |-> <<"Method", "MemberRef">>]
      [] kind = "MemberForwarded" ->
            [shift |-> 1, mask |-> 1, kinds |-> <<"Field", "Method">>]
      [] kind = "Implementation" ->
            [shift |-> 2, mask |-> 3, kinds |-> <<"File", "AssemblyRef", "ExportedType">>]
      [] kind = "CustomAttributeType" ->
            \* a match on the tag, not an array: 2 => Method, 3 => MemberRef
            [shift |-> 3, mask |-> 7, kinds |-> <<>>]
      [] kind = "ResolutionScope" ->
            [shift |-> 2, mask |-> 3,
             kinds |-> <<"Module", "ModuleRef", "AssemblyRef", "TypeRef">>]
      [] kind = "TypeOrMethodDef" ->
            [shift |-> 1, mask |-> 1, kinds |-> <<"TypeDef", "Method">>]
      [] kind = "HasCustomDebugInformation" ->
            [shift |-> 5, mask |-> 31,
             kinds |-> DecodeHasCustomAttribute \o
                       <<"Document", "LocalScope", "LocalVariable",
                         "LocalConstant", "ImportScope">>]

\* the tag looked up as an array index would be, also for CustomAttributeType
decode_kind_by_position(kind, tag) ==
    LET kinds == IF kind = "CustomAttributeType" THEN <<"Method", "MemberRef">>
                 ELSE DecodeArm(kind).kinds
    IN  IF tag < Len(kinds) THEN Some(kinds[tag + 1]) ELSE None

\* the token kind a tag selects: `[..].get(tag)?` or the match of
\* CustomAttributeType
decode_kind(kind, tag) ==
    IF kind = "CustomAttributeType"
    THEN CASE tag = 2 -> Some("Method")
           [] tag = 3 -> Some("MemberRef")
           [] OTHER -> None
    ELSE LET kinds == DecodeArm(kind).kinds
         IN  IF tag < Len(kinds) THEN Some(kinds[tag + 1]) ELSE None

\* CodedIndex::decode
decode(v, kind) ==
    LET arm   == DecodeArm(kind)
        index == Shr(v, arm.shift)
        tk    == decode_kind(kind, BitAnd(v, arm.mask))
    IN  IF tk.some THEN Some(MetadataToken_new(index, tk.v)) ELSE None

\* the tags of HasCustomAttribute in CodedIndex::encode
EncodeHasCustomAttribute ==
    [Method |-> 0, Field |-> 1, TypeRef |-> 2, TypeDef |-> 3, Param |-> 4,
     InterfaceImpl |-> 5, MemberRef |-> 6, Module |-> 7, Permission |-> 8,
     Property |-> 9, Event |-> 10, Signature |-> 11, ModuleRef |-> 12,
     TypeSpec |-> 13, Assembly |-> 14, AssemblyRef |-> 15, File |-> 16,
     ExportedType |-> 17, ManifestResource |-> 18, GenericParam |-> 19,
     GenericParamConstraint |-> 20, MethodSpec |-> 21]

\* CodedIndex::encode, per kind: the shift and the tag of each token kind
EncodeArm(kind) ==
    CASE kind = "TypeDefOrRef" ->
            [shift |-> 2, tags |-> [TypeDef |-> 0, TypeRef |-> 1, TypeSpec |-> 2]]
      [] kind = "HasConstant" ->
            [shift |-> 2, tags |-> [Field |-> 0, Param |-> 1, Property |-> 2]]
      [] kind = "HasCustomAttribute" ->
            [shift |-> 5, tags |-> EncodeHasCustomAttribute]
      [] kind = "HasFieldMarshal" ->
            [shift |-> 1, tags |-> [Field |-> 0, Param |-> 1]]
      [] kind = "HasDeclSecurity" ->
            [shift |-> 2, tags |-> [TypeDef |-> 0, Method |-> 1, Assembly |-> 2]]
      [] kind = "MemberRefParent" ->
            [shift |-> 3, tags |-> [TypeDef |-> 0, TypeRef |-> 1, ModuleRef |-> 2,
                                    Method |-> 3, TypeSpec |-> 4]]
      [] kind = "HasSemantics" ->
            [shift |-> 1, tags |-> [Event |-> 0, Property |-> 1]]
      [] kind = "MethodDefOrRef" ->
            [shift |-> 1, tags |-> [Method |-> 0, MemberRef |-> 1]]
      [] kind = "MemberForwarded" ->
            [shift |-> 1, tags |-> [Field |-> 0, Method |-> 1]]
      [] kind = "Implementation" ->
            [shift |-> 2, tags |-> [File |-> 0, AssemblyRef |-> 1, ExportedType |-> 2]]
      [] kind = "CustomAttributeType" ->
            [shift |-> 3, tags |-> [Method |-> 2, MemberRef |-> 3]]
      [] kind = "ResolutionScope" ->
            [shift |-> 2, tags |-> [Module |-> 0, ModuleRef |-> 1, AssemblyRef |-> 2,
                                    TypeRef |-> 3]]
      [] kind = "TypeOrMethodDef" ->
            [shift |-> 1, tags |-> [TypeDef |-> 0, Method |-> 1]]
      [] kind = "HasCustomDebugInformation" ->
            [shift |-> 5,
             tags |-> [tk \in DOMAIN EncodeHasCustomAttribute \cup
                               {"Document", "LocalScope", "LocalVariable",
                                "LocalConstant", "ImportScope"} |->
                       CASE tk = "Document" -> 22
                         [] tk = "LocalScope" -> 23
                         [] tk = "LocalVariable" -> 24
                         [] tk = "LocalConstant" -> 25
                         [] tk = "ImportScope" -> 26
                         [] OTHER -> EncodeHasCustomAttribute[tk]]]

\* CodedIndex::encode.  The model's row numbers all fit a u32, so
\* `index.try_into().ok()?` never returns None here.
encode(index, token_kind, kind) ==
    IF index = 0 THEN Some(0)
    ELSE LET arm == EncodeArm(kind)
         IN  IF token_kind \in DOMAIN arm.tags
             THEN Some(BitOr(Shl(index, arm.shift), arm.tags[token_kind]))
             ELSE None

\* row numbers encoded: none, the first, and the largest a token can carry
RowSample == {0, 1, 2, 2 ^ 24 - 1}
\* coded values read from table rows: every small one, and 16- and 32-bit
\* values with large row numbers
CodedSample ==
    (0 .. MaxCoded) \cup {2 ^ 16 - 1, 2 ^ 16 + 2, 2 ^ 29 + 15, 2 ^ 30 + 2, 2 ^ 30 + 3}

NoTok == [op |-> "new", kind |-> "-", some |-> FALSE, v |-> 0, err |-> "None"]
NoCi == [some |-> FALSE, v |-> 0, how |-> "new", row |-> 0, tk |-> "-", kind |-> "-"]

CodedInit ==
    /\ ci = NoCi
    /\ tok = NoTok

CodedIdle == CodedInit

\* CodedIndex::encode(row, token_kind, kind); a run follows one coded index
Encode ==
    \E row \in RowSample, tk \in TokenKinds, kind \in CodedIndexKind :
        LET c == encode(row, tk, kind)
        IN  /\ ci.how = "new"
            /\ ci' = [some |-> c.some, v |-> c.v, how |-> "encode",
                      row |-> row, tk |-> tk, kind |-> kind]
            /\ tok' = NoTok
            /\ UNCHANGED <<streamVars, blobVars, heapVars, rvaVars, tableVars, imageVars, stringVars, getTableVars, typesVars, refsVars, readersVars, rowsVars, rootVars, loadVars>>

\* ByteStream::read_coded_index: a coded value as stored in a table row
ReadCodedIndex ==
    \E v \in CodedSample :
        /\ ci.how = "new"
        /\ ci' = [some |-> TRUE, v |-> v, how |-> "read",
                  row |-> 0, tk |-> "-", kind |-> "-"]
        /\ tok' = NoTok
        /\ UNCHANGED <<streamVars, blobVars, heapVars, rvaVars, tableVars, imageVars, stringVars, getTableVars, typesVars, refsVars, readersVars, rowsVars, rootVars, loadVars>>

\* coded.decode(kind).ok_or(InvalidData), as the readers call it
Decode ==
    \E kind \in CodedIndexKind :
        /\ ci.some
        /\ LET t == decode(ci.v, kind)
           IN  tok' = [op |-> "decode", kind |-> kind, some |-> t.some, v |-> t.v,
                       err |-> IF t.some THEN "None" ELSE "InvalidData"]
        /\ UNCHANGED ci
        /\ UNCHANGED <<streamVars, blobVars, heapVars, rvaVars, tableVars, imageVars, stringVars, getTableVars, typesVars, refsVars, readersVars, rowsVars, rootVars, loadVars>>

-----------------------------------------------------------------------------
(* TableHeap: row counts and index widths *)

\* enum TableKind, with its discriminants (the bit positions in `valid`)
TableKind ==
    [Module |-> 0, TypeRef |-> 1, TypeDef |-> 2, FieldPtr |-> 3, Field |-> 4,
     MethodPtr |-> 5, MethodDef |-> 6, ParamPtr |-> 7, Param |-> 8,
     InterfaceImpl |-> 9, MemberRef |-> 10, Constant |-> 11,
     CustomAttribute |-> 12, FieldMarshal |-> 13, DeclSecurity |-> 14,
     ClassLayout |-> 15, FieldLayout |-> 16, StandAloneSig |-> 17,
     EventMap |-> 18, EventPtr |-> 19, Event |-> 20, PropertyMap |-> 21,
     PropertyPtr |-> 22, Property |-> 23, MethodSemantics |-> 24,
     MethodImpl |-> 25, ModuleRef |-> 26, TypeSpec |-> 27, ImplMap |-> 28,
     FieldRVA |-> 29, EncLog |-> 30, EncMap |-> 31, Assembly |-> 32,
     AssemblyProcessor |-> 33, AssemblyOS |-> 34, AssemblyRef |-> 35,
     AssemblyRefProcessor |-> 36, AssemblyRefOS |-> 37, File |-> 38,
     ExportedType |-> 39, ManifestResource |-> 40, NestedClass |-> 41,
     GenericParam |-> 42, MethodSpec |-> 43, GenericParamConstraint |-> 44,
     Document |-> 48, MethodDebugInformation |-> 49, LocalScope |-> 50,
     LocalVariable |-> 51, LocalConstant |-> 52, ImportScope |-> 53,
     StateMachineMethod |-> 54, CustomDebugInformation |-> 55]

TableKinds == DOMAIN TableKind
TableIds == {TableKind[k] : k \in TableKinds}

\* enum IndexSize
Slim == 2
Fat == 4

\* TableHeap::has_table
has_table(v, kind) == TableKind[kind] \in v

\* TableHeap::row_count: the entry of rows() at the number of present kinds
\* that TableKind::iter() yields before `table` (iter() runs in declaration
\* order, which is ascending discriminant order)
row_count(v, r, table) ==
    IF ~has_table(v, table) THEN 0
    ELSE LET index == Cardinality({b \in v : /\ b < TableKind[table]
                                             /\ b \in TableIds})
         IN  r[index + 1]

\* TableHeap::idx_size with the comparison off by one
idx_size_lt(v, r, table) ==
    IF row_count(v, r, table) < 65535 THEN Slim ELSE Fat

\* TableHeap::idx_size
idx_size(v, r, table) ==
    IF row_count(v, r, table) <= 65535 THEN Slim ELSE Fat

\* the tables of HasCustomAttribute in CodedIndex::get_size
SizeHasCustomAttribute ==
    <<"MethodDef", "Field", "TypeRef", "TypeDef", "Param", "InterfaceImpl",
      "MemberRef", "Module", "DeclSecurity", "Property", "Event",
      "StandAloneSig", "ModuleRef", "TypeSpec", "Assembly", "AssemblyRef",
      "File", "ExportedType", "ManifestResource", "GenericParam",
      "GenericParamConstraint", "MethodSpec">>

\* CodedIndex::get_size, per kind: (bits, tables)
SizeArm(kind) ==
    CASE kind = "TypeDefOrRef" ->
            [bits |-> 2, tables |-> <<"TypeDef", "TypeRef", "TypeSpec">>]
      [] kind = "HasConstant" ->
            [bits |-> 2, tables |-> <<"Field", "Param", "Property">>]
      [] kind = "HasCustomAttribute" ->
            [bits |-> 5, tables |-> SizeHasCustomAttribute]
      [] kind = "HasFieldMarshal" ->
            [bits |-> 1, tables |-> <<"Field", "Param">>]
      [] kind = "HasDeclSecurity" ->
            [bits |-> 2, tables |-> <<"TypeDef", "MethodDef", "Assembly">>]
      [] kind = "MemberRefParent" ->
            [bits |-> 3,
             tables |-> <<"TypeDef", "TypeRef", "ModuleRef", "MethodDef", "TypeSpec">>]
      [] kind = "HasSemantics" ->
            [bits |-> 1, tables |-> <<"Event", "Property">>]
      [] kind = "MethodDefOrRef" ->
            [bits |-> 1, tables |-> <<"MethodDef", "MemberRef">>]
      [] kind = "MemberForwarded" ->
            [bits |-> 1, tables |-> <<"Field", "MethodDef">>]
      [] kind = "Implementation" ->
            [bits |-> 2, tables |-> <<"File", "AssemblyRef", "ExportedType">>]
      [] kind = "CustomAttributeType" ->
            [bits |-> 3, tables |-> <<"MethodDef", "MemberRef">>]
      [] kind = "ResolutionScope" ->
            [bits |-> 2,
             tables |-> <<"Module", "ModuleRef", "AssemblyRef", "TypeRef">>]
      [] kind = "TypeOrMethodDef" ->
            [bits |-> 1, tables |-> <<"TypeDef", "MethodDef">>]
      [] kind = "HasCustomDebugInformation" ->
            [bits |-> 5,
             tables |-> SizeHasCustomAttribute \o
                        <<"Document", "LocalScope", "LocalVariable",
                          "LocalConstant", "ImportScope">>]

\* tables.iter().map(|t| tables_heap.row_count(*t)).max().unwrap()
MaxRows(v, r, tables) ==
    LET counts == {row_count(v, r, tables[i]) : i \in 1 .. Len(tables)}
    IN  CHOOSE m \in counts : \A c \in counts : c <= m

\* CodedIndex::get_size with the comparison off by one
get_size_le(kind, v, r) ==
    LET arm == SizeArm(kind)
    IN  IF MaxRows(v, r, arm.tables) <= Shl(1, 16 - arm.bits) THEN Slim ELSE Fat

\* CodedIndex::get_size
get_size(kind, v, r) ==
    LET arm == SizeArm(kind)
    IN  IF MaxRows(v, r, arm.tables) < Shl(1, 16 - arm.bits) THEN Slim ELSE Fat

\* row counts given to the present tables: one row, and both sides of every
\* width threshold (2^11, 2^13, 2^14, 2^15 for 5, 3, 2, 1 tag bits; 2^16)
RowCountSample ==
    {1} \cup {2 ^ e - 1 : e \in {11, 13, 14, 15, 16}}
        \cup {2 ^ e : e \in {11, 13, 14, 15, 16}}

\* the sets of at most n elements of S
RECURSIVE SubsetsUpTo(_, _)
SubsetsUpTo(S, n) ==
    IF n = 0 THEN {{}}
    ELSE LET smaller == SubsetsUpTo(S, n - 1)
         IN  smaller \cup {s \cup {x} : s \in smaller, x \in S}

\* the tables heaps read: up to MaxTables tables present
TableSets == SubsetsUpTo(TableIds, MaxTables)

\* the row-count vectors of n present tables: one table takes a sampled
\* count, at any position, and the others have one row
RowVectors(n) ==
    {[i \in 1 .. n |-> IF i = j THEN c ELSE 1] : j \in 1 .. n, c \in RowCountSample}

NoWidth == [op |-> "new", size |-> <<>>]
NoCount == [op |-> "new", of |-> "-", rows |-> 0]

HeapInit ==
    /\ valid \in TableSets
    /\ rows \in RowVectors(Cardinality(valid))
    /\ width = NoWidth
    /\ rowCount = NoCount

HeapIdle ==
    /\ valid = {}
    /\ rows = <<>>
    /\ width = NoWidth
    /\ rowCount = NoCount

\* CodedIndex::get_size(kind, tables), for every kind: the widths of the
\* coded-index columns of the heap's tables.  The heap is immutable, so the
\* widths are computed from a fresh heap only: a second query repeats the first.
GetSize ==
    /\ width.op = "new"
    /\ width' = [op |-> "get_size",
                 size |-> [kind \in CodedIndexKind |-> get_size(kind, valid, rows)]]
    /\ UNCHANGED <<valid, rows, rowCount>>
    /\ UNCHANGED <<streamVars, blobVars, codedVars, rvaVars, tableVars, imageVars, stringVars, getTableVars, typesVars, refsVars, readersVars, rowsVars, rootVars, loadVars>>

\* tables.idx_size(table), for every table: the widths of the simple-index
\* columns of the heap's tables
IdxSize ==
    /\ width.op = "new"
    /\ width' = [op |-> "idx_size",
                 size |-> [table \in TableKinds |-> idx_size(valid, rows, table)]]
    /\ UNCHANGED <<valid, rows, rowCount>>
    /\ UNCHANGED <<streamVars, blobVars, codedVars, rvaVars, tableVars, imageVars, stringVars, getTableVars, typesVars, refsVars, readersVars, rowsVars, rootVars, loadVars>>

\* valid masks with bits that name no table: bits taken from the first and
\* last table ids, the unassigned ids 0x2d and 0x2f between them, the debug
\* tables and the top bit
MaskBitSample == {0, 2, 44, 45, 47, 48, 55, 63}

\* row-count vectors that tell their positions apart
RowPatterns(n) == {[i \in 1 .. n |-> i], [i \in 1 .. n |-> 10 * (n + 1 - i)]}

\* a tables heap with any of the sampled bits set in valid, and
\* popcount(valid) row counts (table_count / rows)
MaskInit ==
    /\ valid \in SUBSET MaskBitSample
    /\ rows \in RowPatterns(Cardinality(valid))
    /\ width = NoWidth
    /\ rowCount = NoCount

\* tables.row_count(table)
RowCount ==
    \E table \in TableKinds :
        /\ rowCount' = [op |-> "row_count", of |-> table,
                        rows |-> row_count(valid, rows, table)]
        /\ UNCHANGED <<valid, rows, width>>
        /\ UNCHANGED <<streamVars, blobVars, codedVars, rvaVars, tableVars, imageVars, stringVars, getTableVars, typesVars, refsVars, readersVars, rowsVars, rootVars, loadVars>>

-----------------------------------------------------------------------------
(* resolve_rva: RVA to file offset through the section table *)

\* A u32 is kept exactly, as two 16-bit limbs <<hi, lo>>.
Limb == 2 ^ 16
U32(hi, lo) == <<hi, lo>>

\* a >= b and a < b on u32
u32_ge(a, b) == a[1] > b[1] \/ (a[1] = b[1] /\ a[2] >= b[2])
u32_lt(a, b) == ~u32_ge(a, b)

\* a + b on u32: the wrapped sum and whether it overflowed
u32_add(a, b) ==
    LET lo == a[2] + b[2]
        hi == a[1] + b[1] + lo \div Limb
    IN  [val |-> U32(hi % Limb, lo % Limb), overflow |-> hi >= Limb]

\* a - b on u32: the wrapped difference and whether it overflowed
u32_sub(a, b) ==
    LET lo == a[2] - b[2]
        hi == a[1] - b[1] - (IF lo < 0 THEN 1 ELSE 0)
    IN  [val |-> U32(hi % Limb, lo % Limb), overflow |-> hi < 0]

\* struct SectionHeader, the fields resolve_rva reads
SectionHeader(va, size, pointer) ==
    [virtual_address |-> va, size_of_raw_data |-> size, pointer_to_raw_data |-> pointer]

\* sections.iter().find(|s| rva >= s.virtual_address
\*                       && rva < (s.virtual_address + s.size_of_raw_data)),
\* from the i-th section on.  The sum is computed only when the first
\* comparison holds; with overflow checks an overflowing sum panics, without
\* them it wraps.
RECURSIVE find_section(_, _, _, _)
find_section(r, secs, i, oc) ==
    IF i > Len(secs) THEN [panic |-> FALSE, found |-> 0]
    ELSE LET s == secs[i]
             end == u32_add(s.virtual_address, s.size_of_raw_data)
         IN  IF ~u32_ge(r, s.virtual_address) THEN find_section(r, secs, i + 1, oc)
             ELSE IF end.overflow /\ oc THEN [panic |-> TRUE, found |-> 0]
             ELSE IF u32_lt(r, end.val) THEN [panic |-> FALSE, found |-> i]
             ELSE find_section(r, secs, i + 1, oc)

\* resolve_rva
resolve_rva(r, secs, oc) ==
    LET f == find_section(r, secs, 1, oc)
    IN  IF f.panic THEN [err |-> "Panic", val |-> U32(0, 0)]
        ELSE IF f.found = 0 THEN [err |-> "OffsetOutOfBounds", val |-> U32(0, 0)]
        ELSE LET section == secs[f.found]
                 delta == u32_sub(r, section.virtual_address)
                 sum == u32_add(delta.val, section.pointer_to_raw_data)
             IN  IF (delta.overflow \/ sum.overflow) /\ oc
                 THEN [err |-> "Panic", val |-> U32(0, 0)]
                 ELSE [err |-> "None", val |-> sum.val]

\* section headers read: the section of the example, neighbours of it, a
\* section at the top of the address space and raw pointers near the top
VaSample == {U32(0, 8192), U32(0, 9216), U32(65535, 61440)}
SizeSample == {U32(0, 0), U32(0, 1024), U32(0, 8192)}
PointerSample == {U32(0, 512), U32(65535, 65280)}
SectionSample ==
    {SectionHeader(va, size, pointer) :
        va \in VaSample, size \in SizeSample, pointer \in PointerSample}
RvaSample ==
    {U32(0, 0), U32(0, 8191), U32(0, 8192), U32(0, 9215), U32(0, 9216),
     U32(0, 10240), U32(65535, 61440), U32(65535, 63488), U32(65535, 65535)}

NoOffset == [op |-> "new", checks |-> FALSE, err |-> "None", val |-> U32(0, 0)]

RvaInit ==
    /\ sections \in SeqsUpTo(SectionSample, MaxSections)
    /\ rva \in RvaSample
    /\ offset = NoOffset

RvaIdle ==
    /\ sections = <<>>
    /\ rva = U32(0, 0)
    /\ offset = NoOffset

\* resolve_rva(rva, sections), in a build with or without overflow checks
ResolveRva ==
    \E oc \in BOOLEAN :
        LET r == resolve_rva(rva, sections, oc)
        IN  /\ offset' = [op |-> "resolve_rva", checks |-> oc, err |-> r.err, val |-> r.val]
            /\ UNCHANGED <<sections, rva>>
            /\ UNCHANGED <<streamVars, blobVars, codedVars, heapVars, tableVars, imageVars, stringVars, getTableVars, typesVars, refsVars, readersVars, rowsVars, rootVars, loadVars>>

-----------------------------------------------------------------------------
(* MetadataTable: a table view over rows of fixed width *)

\* TableIndex is a u32.  It is modelled with 16 bits so that, as on a 64-bit
\* target, row_size * index never leaves usize.
IndexMod == 2 ^ 16

\* little-endian value of a byte sequence
RECURSIVE LE(_)
LE(s) == IF s = <<>> THEN 0 ELSE s[1] + 256 * LE(Tail(s))

RECURSIVE SumSeq(_)
SumSeq(s) == IF s = <<>> THEN 0 ELSE s[1] + SumSeq(Tail(s))

\* the column widths of the row schemas tried (calc_row_size is their sum)
ColumnSample == {<<1>>, <<2>>, <<1, 2>>}

\* MetadataTable::row_size
table_row_size(t) == SumSeq(t.cols)

\* MetadataTable::len
table_len(t) == Len(t.bytes) \div table_row_size(t)

\* ParseRow::parse_row: one reader.read()? per column, from column k on
RECURSIVE parse_row(_, _, _, _, _)
parse_row(t, pos, k, acc, oc) ==
    IF k > Len(t.cols) THEN Ok(pos, acc)
    ELSE LET r == read(t.bytes, pos, t.cols[k], oc)
         IN  IF r.err # "None" THEN r
             ELSE parse_row(t, r.position, k + 1, Append(acc, LE(r.val)), oc)

\* MetadataTable::get with the row number used as the row offset
table_get_zero_based(t, index, oc) ==
    LET s == seek(t.bytes, 0, table_row_size(t) * index)
    IN  IF s.err # "None" THEN s
        ELSE parse_row(t, s.position, 1, <<>>, oc)

\* MetadataTable::get: `index.0 - 1` is a u32 subtraction, which panics on
\* overflow when overflow checks are compiled in and wraps otherwise
table_get(t, index, oc) ==
    IF index = 0 /\ oc THEN Panic(0)
    ELSE LET s == seek(t.bytes, 0, table_row_size(t) * ((index - 1) % IndexMod))
         IN  IF s.err # "None" THEN s
             ELSE parse_row(t, s.position, 1, <<>>, oc)

\* the table slices handed to a table view by get_table: rows * row_size bytes
TableViews ==
    {[cols |-> c, bytes |-> b] :
        c \in ColumnSample,
        b \in SeqsUpTo(ByteSample, MaxTableRows * 3)}

TableInit ==
    /\ view \in {t \in TableViews : /\ Len(t.bytes) % table_row_size(t) = 0
                                     /\ table_len(t) <= MaxTableRows}
    /\ viewIter = [position |-> 0, items |-> <<>>, done |-> FALSE]
    /\ viewRow = [op |-> "new", index |-> 0, checks |-> FALSE, err |-> "None", val |-> <<>>]

TableIdle ==
    /\ view = [cols |-> <<1>>, bytes |-> <<>>]
    /\ viewIter = [position |-> 0, items |-> <<>>, done |-> FALSE]
    /\ viewRow = [op |-> "new", index |-> 0, checks |-> FALSE, err |-> "None", val |-> <<>>]

\* row numbers asked for: none, every row, past the end, the largest
IndexSample == (0 .. MaxTableRows + 1) \cup {IndexMod - 1}

\* view.get(index), in a build with or without overflow checks
TableGet ==
    \E index \in IndexSample, oc \in BOOLEAN :
        LET r == table_get(view, index, oc)
        IN  /\ viewRow' = [op |-> "get", index |-> index, checks |-> oc,
                       err |-> r.err, val |-> r.val]
            /\ UNCHANGED <<view, viewIter>>
            /\ UNCHANGED <<streamVars, blobVars, codedVars, heapVars, rvaVars, imageVars, stringVars, getTableVars, typesVars, refsVars, readersVars, rowsVars, rootVars, loadVars>>

\* Iterator::next of the table's iterator
TableIterNext ==
    /\ ~viewIter.done
    /\ IF Len(view.bytes) - viewIter.position = 0
       THEN viewIter' = [viewIter EXCEPT !.done = TRUE]
       ELSE LET r == parse_row(view, viewIter.position, 1, <<>>, FALSE)
            IN  viewIter' = [position |-> r.position,
                         items |-> Append(viewIter.items, [err |-> r.err, val |-> r.val]),
                         done |-> FALSE]
    /\ UNCHANGED <<view, viewRow>>
    /\ UNCHANGED <<streamVars, blobVars, codedVars, heapVars, rvaVars, imageVars, stringVars, getTableVars, typesVars, refsVars, readersVars, rowsVars, rootVars, loadVars>>

-----------------------------------------------------------------------------
(* Reading structures field by field (derive FromByteStream)               *)

\* the fields read so far: field name -> bytes read
NoFields == [name \in {} |-> <<>>]

\* a u32 from its four little-endian bytes
U32Of(v) == U32(v[4] * 256 + v[3], v[2] * 256 + v[1])
\* `x as usize` of a u32; the images read keep every offset below 2^31
AsUsize(u) == u[1] * Limb + u[2]

\* struct PeHeader: (field, size_of field type)
PeHeaderFields ==
    << <<"PeHeader.magic", 4>>, <<"PeHeader.machine", 2>>,
       <<"PeHeader.number_of_sections", 2>>, <<"PeHeader.timestamp", 4>>,
       <<"PeHeader.pointer_to_symbol_table", 4>>, <<"PeHeader.number_of_symbols", 4>>,
       <<"PeHeader.optional_header_size", 2>>, <<"PeHeader.characteristics", 2>> >>

\* PeOptionalHeader::from_byte_stream: the reads after `magic`, in order;
\* base_of_data is read only for PE32, and six fields widen to u64 in PE32+
OptionalFields(pe64) ==
    << <<"l_major", 1>>, <<"l_minor", 1>>, <<"code_size", 4>>,
       <<"initialized_data_size", 4>>, <<"uninitialized_data_size", 4>>,
       <<"entry_point_rva", 4>>, <<"base_of_code", 4>> >>
    \o (IF pe64 THEN <<>> ELSE << <<"base_of_data", 4>> >>)
    \o << <<"image_base", IF pe64 THEN 8 ELSE 4>>, <<"section_alignment", 4>>,
          <<"file_alignment", 4>>, <<"os_major", 2>>, <<"os_minor", 2>>,
          <<"user_major", 2>>, <<"user_minor", 2>>, <<"sub_sys_major", 2>>,
          <<"sub_sys_minor", 2>>, <<"reserved", 4>>, <<"image_size", 4>>,
          <<"header_size", 4>>, <<"file_checksum", 4>>, <<"sub_system", 2>>,
          <<"dll_flags", 2>>,
          <<"stack_reserve_size", IF pe64 THEN 8 ELSE 4>>,
          <<"stack_commit_size", IF pe64 THEN 8 ELSE 4>>,
          <<"heap_reserve_size", IF pe64 THEN 8 ELSE 4>>,
          <<"heap_commit_size", IF pe64 THEN 8 ELSE 4>>,
          <<"loader_flags", 4>>, <<"number_of_data_directories", 4>> >>

\* data_directories: sixteen DataDirectory { rva: u32, size: u32 }
DataDirectoryFields ==
    [i \in 1 .. 32 |->
        <<IF i % 2 = 1 THEN "rva" ELSE "size", 4, (i - 1) \div 2>>]

\* the little-endian bytes of a value, n bytes wide
RECURSIVE LEBytes(_, _)
LEBytes(v, n) == IF n = 0 THEN <<>> ELSE <<v % 256>> \o LEBytes(v \div 256, n - 1)

\* the predicates of #[check_value(..)] and read_checked(..), on the bytes of
\* the value read; e holds the fields read before
CheckValue(name, v, e, pe64) ==
    CASE name = "PeHeader.magic" -> v = LEBytes(17744, 4)
      [] name = "PeHeader.pointer_to_symbol_table" -> v = LEBytes(0, 4)
      [] name = "PeHeader.number_of_symbols" -> v = LEBytes(0, 4)
      [] name = "PeHeader.characteristics" -> v[1] % 16 = 2
      [] name = "magic" -> v \in {LEBytes(267, 2), LEBytes(523, 2)}
      [] name = "file_alignment" ->
            /\ v \in {LEBytes(512, 4), LEBytes(4096, 4)}
            \* then: section_alignment < file_alignment => InvalidData
            /\ ~u32_lt(U32Of(e["section_alignment"]), U32Of(v))
      [] name = "image_size" -> LE(v) % LE(e["section_alignment"]) = 0
      [] name = "header_size" -> LE(v) % LE(e["file_alignment"]) = 0
      [] name = "sub_system" -> v \in {LEBytes(2, 2), LEBytes(3, 2)}
      [] name = "dll_flags" -> v[1] % 16 = 0 /\ (v[2] \div 16) % 2 = 0
      [] name = "stack_reserve_size" ->
            v = IF pe64 THEN LEBytes(4194304, 8) ELSE LEBytes(1048576, 4)
      [] name = "stack_commit_size" ->
            v = IF pe64 THEN LEBytes(16384, 8) ELSE LEBytes(4096, 4)
      [] name = "heap_reserve_size" ->
            v = IF pe64 THEN LEBytes(1048576, 8) ELSE LEBytes(1048576, 4)
      [] name = "heap_commit_size" ->
            v = IF pe64 THEN LEBytes(8192, 8) ELSE LEBytes(4096, 4)
      [] name = "loader_flags" -> v = LEBytes(0, 4)
      [] name = "number_of_data_directories" -> v = LEBytes(16, 4)
      [] OTHER -> TRUE

Parsed(pos, e) == [position |-> pos, err |-> "None", stage |-> "-", fields |-> e]
Failed(pos, err, stage) == [position |-> pos, err |-> err, stage |-> stage, fields |-> NoFields]

\* the generated from_byte_stream: stream.read()? or stream.read_checked(..)?
\* for each field in declaration order, from field k on
RECURSIVE read_fields(_, _, _, _, _, _, _)
read_fields(b, pos, fields, k, e, pe64, oc) ==
    IF k > Len(fields) THEN Parsed(pos, e)
    ELSE LET name == fields[k][1]
             r == read(b, pos, fields[k][2], oc)
         IN  IF r.err # "None" THEN Failed(r.position, r.err, name)
             ELSE IF ~CheckValue(name, r.val, e, pe64)
                  THEN Failed(r.position, "InvalidData", name)
             ELSE read_fields(b, r.position, fields, k + 1,
                              (name :> r.val) @@ e, pe64, oc)

\* PeHeader::from_byte_stream
PeHeader_from_byte_stream(b, pos, oc) ==
    read_fields(b, pos, PeHeaderFields, 1, NoFields, FALSE, oc)

\* the sixteen DataDirectory::from_byte_stream(reader)? of the optional header
RECURSIVE read_data_directories(_, _, _, _, _)
read_data_directories(b, pos, k, e, oc) ==
    IF k > Len(DataDirectoryFields) THEN Parsed(pos, e)
    ELSE LET f == DataDirectoryFields[k]
             r == read(b, pos, f[2], oc)
         IN  IF r.err # "None" THEN Failed(r.position, r.err, "data_directories")
             ELSE read_data_directories(b, r.position, k + 1,
                                        (<<f[1], f[3]>> :> r.val) @@ e, oc)

\* PeOptionalHeader::from_byte_stream
PeOptionalHeader_from_byte_stream(b, pos, oc) ==
    LET m == read_fields(b, pos, << <<"magic", 2>> >>, 1, NoFields, FALSE, oc)
    IN  IF m.err # "None" THEN m
        ELSE LET pe64 == m.fields["magic"] = LEBytes(523, 2)
                 h == read_fields(b, m.position, OptionalFields(pe64), 1,
                                  m.fields, pe64, oc)
             IN  IF h.err # "None" THEN h
                 ELSE read_data_directories(b, h.position, 1, NoFields, oc)

\* size_of and align_of of SectionHeader and CliHeader (#[repr(C)])
SectionHeaderSize == 40
SectionHeaderAlign == 8
CliHeaderSize == 72
CliHeaderAlign == 8

\* the SectionHeader at index i of the slice read_slice::<SectionHeader>
\* returned, which starts at byte offset at
SectionAt(b, at, i) ==
    LET o == at + SectionHeaderSize * (i - 1)
    IN  SectionHeader(U32Of(SubSeq(b, o + 13, o + 16)),
                      U32Of(SubSeq(b, o + 17, o + 20)),
                      U32Of(SubSeq(b, o + 21, o + 24)))

\* CliHeader::from_byte_stream: a bounds- and alignment-checked read of the
\* whole structure
CliHeader_from_byte_stream(b, pos, ba, oc) ==
    read_ref(b, pos, CliHeaderSize, CliHeaderAlign, ba, oc)

-----------------------------------------------------------------------------
(* MetadataHeader: the metadata root and its stream headers *)

\* a - b on usize
SubOverflows(a, b) == a < b
WrapSub(a, b) == (a - b) % UsizeMod

\* the for loop of MetadataHeader::new over the stream headers: skip(8),
\* read_u8_slice_until(0), skip((4usize.wrapping_sub(name.len())) % 4)
RECURSIVE skip_stream_headers(_, _, _, _)
skip_stream_headers(b, pos, n, oc) ==
    IF n = 0 THEN Ok(pos, <<>>)
    ELSE LET s == skip(b, pos, 8, oc)
         IN  IF s.err # "None" THEN s
             ELSE LET name == read_u8_slice_until(b, s.position, 0)
                  IN  IF name.err # "None" THEN name
                      ELSE LET p == skip(b, name.position, (4 - Len(name.val)) % 4, oc)
                           IN  IF p.err # "None" THEN p
                               ELSE skip_stream_headers(b, p.position, n - 1, oc)

NoHeader == [signature |-> <<>>, length |-> 0, version |-> <<>>, stream_count |-> 0,
             offset |-> 0, streams |-> <<>>]
Root(err, stage, h) == [err |-> err, stage |-> stage, header |-> h]

\* MetadataHeader::new(assembly_bytes, offset)
MetadataHeader_new(assembly_bytes, at, oc) ==
    IF at > Len(assembly_bytes) THEN Root("Panic", "assembly_bytes[offset..]", NoHeader)
    ELSE
    LET b == SubSeq(assembly_bytes, at + 1, Len(assembly_bytes))
        signature == read(b, 0, 4, oc)
        major == read(b, signature.position, 2, oc)
        minor == read(b, major.position, 2, oc)
        reserved == skip(b, minor.position, 4, oc)
        length == read(b, reserved.position, 4, oc)
        version == read_null_terminated_str(b, length.position)
        len == AsUsize(U32Of(length.val))
        under == SubOverflows(len, Len(version.val) + 1)
        pad == skip(b, version.position, WrapSub(len, Len(version.val) + 1), oc)
        flags == read(b, pad.position, 2, oc)
        stream_count == read(b, flags.position, 2, oc)
        streams == skip_stream_headers(b, stream_count.position, LE(stream_count.val), oc)
    IN  IF signature.err # "None" THEN Root(signature.err, "signature", NoHeader)
        ELSE IF major.err # "None" THEN Root(major.err, "major_version", NoHeader)
        ELSE IF minor.err # "None" THEN Root(minor.err, "minor_version", NoHeader)
        ELSE IF reserved.err # "None" THEN Root(reserved.err, "reserved", NoHeader)
        ELSE IF length.err # "None" THEN Root(length.err, "length", NoHeader)
        ELSE IF version.err # "None" THEN Root(version.err, "version", NoHeader)
        ELSE IF under /\ oc THEN Root("Panic", "version", NoHeader)
        ELSE IF pad.err # "None" THEN Root(pad.err, "version", NoHeader)
        ELSE IF flags.err # "None" THEN Root(flags.err, "flags", NoHeader)
        ELSE IF stream_count.err # "None" THEN Root(stream_count.err, "stream_count", NoHeader)
        ELSE IF streams.err # "None" THEN Root(streams.err, "streams", NoHeader)
        ELSE Root("None", "-",
                  [signature |-> signature.val, length |-> len, version |-> version.val,
                   stream_count |-> LE(stream_count.val), offset |-> at,
                   streams |-> SubSeq(b, stream_count.position + 1, streams.position)])

\* StreamHeaderIterator::next that pads the name without its NUL
StreamHeaderIterator_next_no_nul(s, pos) ==
    IF Len(s) - pos = 0
    THEN [some |-> FALSE, err |-> "None", position |-> pos,
          offset |-> U32(0, 0), size |-> U32(0, 0), name |-> <<>>]
    ELSE LET off == read(s, pos, 4, FALSE)
             size == read(s, off.position, 4, FALSE)
             name == read_null_terminated_str(s, size.position)
             pad == skip(s, name.position, (4 - Len(name.val)) % 4, FALSE)
             fail(e) == [some |-> TRUE, err |-> e, position |-> pos,
                         offset |-> U32(0, 0), size |-> U32(0, 0), name |-> <<>>]
         IN  IF off.err # "None" THEN fail(off.err)
             ELSE IF size.err # "None" THEN fail(size.err)
             ELSE IF name.err # "None" THEN fail(name.err)
             ELSE [some |-> TRUE, err |-> "None",
                   position |-> IF pad.err # "None" THEN Len(s) ELSE pad.position,
                   offset |-> U32Of(off.val), size |-> U32Of(size.val),
                   name |-> name.val]

\* StreamHeaderIterator::next with the reader at pos: None at the end of the
\* stream headers, else Some(Ok(StreamHeader)) or Some(Err(e))
StreamHeaderIterator_next(s, pos) ==
    IF Len(s) - pos = 0
    THEN [some |-> FALSE, err |-> "None", position |-> pos,
          offset |-> U32(0, 0), size |-> U32(0, 0), name |-> <<>>]
    ELSE LET off == read(s, pos, 4, FALSE)
             size == read(s, off.position, 4, FALSE)
             name == read_null_terminated_str(s, size.position)
             pad == skip(s, name.position, (4 - (Len(name.val) + 1)) % 4, FALSE)
             fail(e) == [some |-> TRUE, err |-> e, position |-> pos,
                         offset |-> U32(0, 0), size |-> U32(0, 0), name |-> <<>>]
         IN  IF off.err # "None" THEN fail(off.err)
             ELSE IF size.err # "None" THEN fail(size.err)
             ELSE IF name.err # "None" THEN fail(name.err)
             ELSE [some |-> TRUE, err |-> "None",
                   \* a failed skip is followed by skip(remaining).unwrap()
                   position |-> IF pad.err # "None" THEN Len(s) ELSE pad.position,
                   offset |-> U32Of(off.val), size |-> U32Of(size.val),
                   name |-> name.val]

Absent == [err |-> "None", some |-> FALSE, val |-> <<>>]
Present(val) == [err |-> "None", some |-> TRUE, val |-> val]
HeapErr(e) == [err |-> e, some |-> FALSE, val |-> <<>>]

\* get_stream_bytes that takes the stream offset from the start of the image
RECURSIVE get_stream_bytes_absolute(_, _, _, _)
get_stream_bytes_absolute(h, assembly_bytes, name, pos) ==
    LET header == StreamHeaderIterator_next(h.streams, pos)
    IN  IF ~header.some THEN Absent
        ELSE IF header.err # "None" THEN HeapErr(header.err)
        ELSE LET start == AsUsize(header.offset)
                 end == start + AsUsize(header.size)
             IN  IF header.name = name
                 THEN IF end > Len(assembly_bytes) THEN HeapErr("Panic")
                      ELSE Present(SubSeq(assembly_bytes, start + 1, end))
                 ELSE get_stream_bytes_absolute(h, assembly_bytes, name, header.position)

\* MetadataHeader::get_stream_bytes, from the stream header at pos on:
\* &self.assembly_bytes[start..start + size] panics when the range does not
\* lie inside the image
RECURSIVE get_stream_bytes(_, _, _, _)
get_stream_bytes(h, assembly_bytes, name, pos) ==
    LET header == StreamHeaderIterator_next(h.streams, pos)
    IN  IF ~header.some THEN Absent
        ELSE IF header.err # "None" THEN HeapErr(header.err)
        ELSE LET start == h.offset + AsUsize(header.offset)
                 end == start + AsUsize(header.size)
             IN  IF header.name = name
                 THEN IF end > Len(assembly_bytes) THEN HeapErr("Panic")
                      ELSE Present(SubSeq(assembly_bytes, start + 1, end))
                 ELSE get_stream_bytes(h, assembly_bytes, name, header.position)

\* MetadataHeader::get_heap::<T>(), name = T::cli_identifier()
get_heap(h, assembly_bytes, name) == get_stream_bytes(h, assembly_bytes, name, 0)

-----------------------------------------------------------------------------
(* Assembly::try_from *)

Opened(err, stage, oob, root, h) ==
    [op |-> "try_from", err |-> err, stage |-> stage, oob |-> oob,
     root |-> root, header |-> h]

\* Assembly::try_from(bytes); ba is the address of bytes[0] modulo 8
Assembly_try_from(b, ba, oc) ==
    LET at3c == seek(b, 0, 60)
        lfanew == read(b, at3c.position, 4, oc)
        pe_start == u32_add(U32Of(lfanew.val), U32(0, 4))
        atpe == seek(b, lfanew.position, AsUsize(pe_start.val))
        pe_header == PeHeader_from_byte_stream(b, atpe.position, oc)
        optional == PeOptionalHeader_from_byte_stream(b, pe_header.position, oc)
        count == LE(pe_header.fields["PeHeader.number_of_sections"])
        table == read_slice(b, optional.position, SectionHeaderSize,
                            SectionHeaderAlign, count, ba, oc)
        secs == [i \in 1 .. count |-> SectionAt(b, optional.position, i)]
        cli_start == resolve_rva(U32Of(optional.fields[<<"rva", 14>>]), secs, oc)
        atcli == seek(b, table.position, AsUsize(cli_start.val))
        cli_header == CliHeader_from_byte_stream(b, atcli.position, ba, oc)
        metadata_start == resolve_rva(U32Of(SubSeq(cli_header.val, 9, 12)), secs, oc)
        root == MetadataHeader_new(b, AsUsize(metadata_start.val), oc)
        fail(e, stage) == Opened(e, stage, FALSE, 0, NoHeader)
    IN  IF at3c.err # "None" THEN fail(at3c.err, "seek(0x3C)")
        ELSE IF lfanew.err # "None" THEN fail(lfanew.err, "lfanew")
        ELSE IF pe_start.overflow /\ oc THEN fail("Panic", "pe_start")
        ELSE IF atpe.err # "None" THEN fail(atpe.err, "seek(pe_start)")
        ELSE IF pe_header.err # "None" THEN fail(pe_header.err, pe_header.stage)
        ELSE IF optional.err # "None" THEN fail(optional.err, optional.stage)
        ELSE IF table.err # "None" THEN fail(table.err, "sections")
        ELSE IF cli_start.err # "None" THEN fail(cli_start.err, "resolve_rva(cli_header)")
        ELSE IF atcli.err # "None" THEN fail(atcli.err, "seek(cli_header)")
        ELSE IF cli_header.err # "None" THEN fail(cli_header.err, "cli_header")
        ELSE IF metadata_start.err # "None"
             THEN fail(metadata_start.err, "resolve_rva(metadata)")
        ELSE Opened(root.err, IF root.err = "None" THEN "-" ELSE "root." \o root.stage,
                    table.oob, AsUsize(metadata_start.val), root.header)

-----------------------------------------------------------------------------
(* The images read: built field by field, then possibly cut off *)

Zeros(n) == [i \in 1 .. n |-> 0]
RECURSIVE Flatten(_)
Flatten(ss) == IF ss = <<>> THEN <<>> ELSE ss[1] \o Flatten(Tail(ss))

\* stream names, as bytes: "#~", "#Strings", "#Blob"
NameTables == <<35, 126>>
NameStrings == <<35, 83, 116, 114, 105, 110, 103, 115>>
NameBlob == <<35, 66, 108, 111, 98>>
HeapNames == {NameTables, NameStrings, NameBlob}

\* the signatures, as bytes: "PE\0\0", 50 45 01 00, "BSJB", "BSJC"
SigPe == <<80, 69, 0, 0>>
SigPeBad == <<80, 69, 1, 0>>
SigRoot == <<66, 83, 74, 66>>
SigRootBad == <<66, 83, 74, 67>>

\* file offsets of the image: the lfanew field, the PE signature, the section
\* table behind the optional header, the section data behind the one section
LfanewAt == 60
PeAt == 64
TableAt(l) == PeAt + 24 + (IF l.pe64 THEN 240 ELSE 224)
CliAt(l) == TableAt(l) + SectionHeaderSize
CliEnd(l) == CliAt(l) + CliHeaderSize
RootAt(l) == CliEnd(l) + l.gap
\* RVA of the section data
SectionVa == 8192

\* a name with its NUL, padded to a multiple of 4
PaddedName(name) == name \o Zeros(4 - (Len(name) % 4))
RootLen(l) ==
    24 + SumSeq([i \in 1 .. Len(l.streams) |-> 8 + Len(PaddedName(l.streams[i].name))])
RootEnd(l) == RootAt(l) + RootLen(l)
\* eight bytes of stream data follow the root
StreamData == <<1, 2, 3, 4, 5, 6, 7, 8>>
ImageLen(l) == RootEnd(l) + Len(StreamData)

\* a stream header: its data lies right behind the root ("in"), starts there
\* and ends past the end of the image ("long"), or lies far outside ("far")
StreamHeaderBytes(l, s) ==
    LEBytes(IF s.where = "far" THEN 4096 ELSE RootLen(l), 4)
    \o LEBytes(IF s.where = "in" THEN 8 ELSE IF s.where = "long" THEN 16 ELSE 4, 4)
    \o PaddedName(s.name)

RootBytes(l) ==
    l.rootSig \o LEBytes(1, 2) \o LEBytes(1, 2) \o Zeros(4)
    \o LEBytes(4, 4) \o <<118, 52, 0, 0>>
    \o LEBytes(0, 2) \o LEBytes(Len(l.streams), 2)
    \o Flatten([i \in 1 .. Len(l.streams) |-> StreamHeaderBytes(l, l.streams[i])])

PeHeaderBytes(l) ==
    l.sig \o LEBytes(332, 2) \o LEBytes(1, 2) \o Zeros(4) \o Zeros(4) \o Zeros(4)
    \o LEBytes(IF l.pe64 THEN 240 ELSE 224, 2) \o LEBytes(258, 2)

OptionalBytes(l) ==
    LEBytes(IF l.pe64 THEN 523 ELSE 267, 2) \o <<8, 0>> \o Zeros(20)
    \o (IF l.pe64 THEN LEBytes(4194304, 8) ELSE Zeros(4) \o LEBytes(4194304, 4))
    \o LEBytes(8192, 4) \o LEBytes(512, 4) \o Zeros(12) \o Zeros(4)
    \o LEBytes(16384, 4) \o LEBytes(512, 4) \o Zeros(4)
    \o LEBytes(3, 2) \o LEBytes(0, 2)
    \o (IF l.pe64
        THEN LEBytes(4194304, 8) \o LEBytes(16384, 8) \o LEBytes(1048576, 8) \o LEBytes(8192, 8)
        ELSE LEBytes(1048576, 4) \o LEBytes(4096, 4) \o LEBytes(1048576, 4) \o LEBytes(4096, 4))
    \o Zeros(4) \o LEBytes(16, 4)
    \o Zeros(14 * 8) \o LEBytes(SectionVa, 4) \o LEBytes(CliHeaderSize, 4) \o Zeros(8)

SectionBytes(l) ==
    <<46, 116, 101, 120, 116, 0, 0, 0>>
    \o LEBytes(ImageLen(l) - CliAt(l), 4) \o LEBytes(SectionVa, 4)
    \o LEBytes(ImageLen(l) - CliAt(l), 4) \o LEBytes(CliAt(l), 4)
    \o Zeros(12) \o LEBytes(96, 4)

CliBytes(l) ==
    LEBytes(CliHeaderSize, 4) \o LEBytes(2, 2) \o LEBytes(5, 2)
    \o LEBytes(SectionVa + CliHeaderSize + l.gap, 4) \o LEBytes(RootLen(l) + Len(StreamData), 4)
    \o LEBytes(1, 4) \o Zeros(4 + 8 + 40)

\* the whole image of a layout, cut off at l.cut
ImageOf(l) ==
    SubSeq(Zeros(LfanewAt) \o LEBytes(l.lfanew, 4)
           \o PeHeaderBytes(l) \o OptionalBytes(l) \o SectionBytes(l)
           \o CliBytes(l) \o Zeros(l.gap) \o RootBytes(l) \o StreamData,
           1, l.cut)

\* the stream headers tried
StreamSample ==
    {[name |-> n, where |-> w] : n \in {NameTables, NameStrings}, w \in {"in", "long", "far"}}

\* the layout the reader opens: lfanew four bytes before the signature, one
\* #~ stream inside the image
Whole(l) == [l EXCEPT !.cut = ImageLen(l)]
DefaultLayout ==
    Whole([lfanew |-> PeAt - 4, sig |-> SigPe, pe64 |-> FALSE, rootSig |-> SigRoot,
           gap |-> 0, base |-> 0, cut |-> 0,
           streams |-> <<[name |-> NameTables, where |-> "in"]>>])

\* the layouts: header variants, stream-header variants, and images cut off at
\* every byte offset
Layouts ==
    {Whole([DefaultLayout EXCEPT !.lfanew = lf, !.sig = sg, !.pe64 = p, !.rootSig = rs,
                                 !.gap = g, !.base = ba]) :
        lf \in {PeAt - 4, PeAt}, sg \in {SigPe, SigPeBad}, p \in BOOLEAN,
        rs \in {SigRoot, SigRootBad}, g \in {0, 8}, ba \in {0, 4}}
    \cup {Whole([DefaultLayout EXCEPT !.streams = ss]) :
            ss \in SeqsUpTo(StreamSample, MaxStreams)}
    \cup {[DefaultLayout EXCEPT !.lfanew = lf, !.gap = g, !.cut = c] :
            lf \in {PeAt - 4, PeAt}, g \in {0, 8}, c \in 0 .. ImageLen(DefaultLayout) + 8}

NoOpened == [op |-> "new", checks |-> FALSE, err |-> "None", stage |-> "-",
             oob |-> FALSE, root |-> 0, header |-> NoHeader]
NoHeap == [op |-> "new", name |-> <<>>, err |-> "None", some |-> FALSE, val |-> <<>>]

ImageInit ==
    /\ layout \in {l \in Layouts : l.cut <= ImageLen(l)}
    /\ image = ImageOf(layout)
    /\ opened = NoOpened
    /\ heapRes = NoHeap

ImageIdle ==
    /\ layout = [DefaultLayout EXCEPT !.cut = 0]
    /\ image = <<>>
    /\ opened = NoOpened
    /\ heapRes = NoHeap

\* Assembly::try_from(bytes), in a build with or without overflow checks
TryFrom ==
    \E oc \in BOOLEAN :
        /\ opened.op = "new"
        /\ opened' = [checks |-> oc] @@ Assembly_try_from(image, layout.base, oc)
        /\ UNCHANGED <<layout, image, heapRes>>
        /\ UNCHANGED <<streamVars, blobVars, codedVars, heapVars, rvaVars, tableVars, stringVars, getTableVars, typesVars, refsVars, readersVars, rowsVars, rootVars, loadVars>>

\* assembly.get_heap::<T>() on an opened image
GetHeap ==
    \E name \in HeapNames :
        /\ opened.op = "try_from"
        /\ opened.err = "None"
        /\ heapRes' = [op |-> "get_heap", name |-> name]
                    @@ get_heap(opened.header, image, name)
        /\ UNCHANGED <<layout, image, opened>>
        /\ UNCHANGED <<streamVars, blobVars, codedVars, heapVars, rvaVars, tableVars, stringVars, getTableVars, typesVars, refsVars, readersVars, rowsVars, rootVars, loadVars>>

-----------------------------------------------------------------------------
(* StringHeap *)

\* heap bytes tried: NUL and two ASCII letters
StringByteSample == {0, 97, 98}
StringHeaps == SeqsUpTo(StringByteSample, MaxStringLen)

\* the bytes of s before its first 0x00, all of s when it has none
UntilNul(s) ==
    LET nuls == {i \in 1 .. Len(s) : s[i] = 0}
    IN  IF nuls = {} THEN s
        ELSE SubSeq(s, 1, (CHOOSE i \in nuls : \A j \in nuls : i <= j) - 1)

\* StringHeap::get_string: &self.bytes[index..] panics when index > len
get_string(heap, index) ==
    IF index > Len(heap) THEN [err |-> "Panic", val |-> <<>>]
    ELSE [err |-> "None", val |-> UntilNul(SubSeq(heap, index + 1, Len(heap)))]

NoString == [op |-> "new", index |-> 0, err |-> "None", val |-> <<>>]

StringInit ==
    /\ stringBytes \in StringHeaps
    /\ stringRes = NoString

StringIdle ==
    /\ stringBytes = <<>>
    /\ stringRes = NoString

\* heap.get_string(HeapIndex(index)), for indices up to two past the end
GetString ==
    \E index \in 0 .. Len(stringBytes) + 2 :
        /\ stringRes' = [op |-> "get_string", index |-> index] @@ get_string(stringBytes, index)
        /\ UNCHANGED stringBytes
        /\ UNCHANGED <<streamVars, blobVars, codedVars, heapVars, rvaVars, tableVars, imageVars, getTableVars, typesVars, refsVars, readersVars, rowsVars, rootVars, loadVars>>

-----------------------------------------------------------------------------
(* TableHeap::get_table *)

\* the kinds TableHeap::row_size has an arm for
Schemas ==
    {"Param", "Field", "Event", "Module", "TypeRef", "TypeDef", "ImplMap",
     "TypeSpec", "Property", "Assembly", "FieldRVA", "Constant", "EventMap",
     "MemberRef", "MethodDef", "ModuleRef", "MethodImpl", "FieldLayout",
     "ClassLayout", "PropertyMap", "AssemblyRef", "FieldMarshal",
     "DeclSecurity", "InterfaceImpl", "MethodSemantics", "CustomAttribute",
     "StandAloneSig"}

\* the kind TableKind::iter() yields for a discriminant
KindOf(id) == CHOOSE k \in TableKinds : TableKind[k] = id

\* TableHeap::row_size: the kind's calc_row_size (sizes: kind -> bytes per
\* row), unimplemented!() for a kind without an arm
row_size(sizes, table) ==
    IF table \in Schemas THEN Ok(0, sizes[table]) ELSE Panic(0)

NoTable == [err |-> "None", some |-> FALSE, from |-> 0, to |-> 0]
TableErr(e) == [NoTable EXCEPT !.err = e]

\* the loop of get_table over indices.zip(tables): present holds the kinds
\* TableKind::iter() has still to yield, index the position in rows()
RECURSIVE get_table_loop(_, _, _, _, _, _, _, _)
get_table_loop(present, index, count, r, sizes, len, pos, T) ==
    IF present = {} \/ index >= count THEN NoTable
    ELSE LET id == CHOOSE a \in present : \A c \in present : a <= c
             table == KindOf(id)
             row_size_ == row_size(sizes, table)
             table_size == r[index + 1] * row_size_.val
         IN  IF row_size_.err # "None" THEN TableErr(row_size_.err)
             ELSE IF pos + table_size > len THEN TableErr("UnexpectedEndOfStream")
             ELSE IF table = T
             THEN [err |-> "None", some |-> TRUE, from |-> pos, to |-> pos + table_size]
             ELSE get_table_loop(present \ {id}, index + 1, count, r, sizes, len,
                                 pos + table_size, T)

\* TableHeap::get_table with the tables laid out from byte 24, as if the
\* row-count vector were not there
get_table_no_rows(v, r, sizes, len, T) ==
    IF ~has_table(v, T) THEN NoTable
    ELSE LET table_count == Cardinality(v)
         IN  IF 24 + 4 * table_count > len THEN TableErr("UnexpectedEndOfStream")
             ELSE get_table_loop(v \cap TableIds, 0, table_count, r, sizes, len,
                                 24, T)

\* TableHeap::get_table::<T>() on a heap of len bytes
get_table(v, r, sizes, len, T) ==
    IF ~has_table(v, T) THEN NoTable
    ELSE LET table_count == Cardinality(v)
         IN  IF 24 + 4 * table_count > len THEN TableErr("UnexpectedEndOfStream")
             ELSE get_table_loop(v \cap TableIds, 0, table_count, r, sizes, len,
                                 24 + 4 * table_count, T)

\* valid masks tried: tables with a row schema (Module, TypeDef, Field),
\* kinds without one (FieldPtr, MethodSpec, Document), a bit that names no kind
KindBitSample == {0, 2, 3, 4, 43, 45, 48}
\* row widths tried, the same for every kind
RowSizeSample == {2, 6}
\* heap lengths tried: the fixed header only, a short heap, a long one
HeapLenSample == {24, 64, 1024}

NoGot == [op |-> "new", of |-> "-"] @@ NoTable

GetTableInit ==
    /\ valid \in SUBSET KindBitSample
    /\ rows \in RowPatterns(Cardinality(valid))
    /\ width = NoWidth
    /\ rowCount = NoCount
    /\ rowSizes \in {[k \in Schemas |-> w] : w \in RowSizeSample}
    /\ heapLen \in HeapLenSample
    /\ got = NoGot

GetTableIdle ==
    /\ rowSizes = [k \in Schemas |-> 2]
    /\ heapLen = 24
    /\ got = NoGot

\* tables.get_table::<T>() for a table type T, which exists only for kinds
\* with a row schema
GetTable ==
    \E T \in Schemas :
        /\ got.op = "new"
        /\ got' = [op |-> "get_table", of |-> T] @@ get_table(valid, rows, rowSizes, heapLen, T)
        /\ UNCHANGED <<rowSizes, heapLen>>
        /\ UNCHANGED <<streamVars, blobVars, codedVars, heapVars, rvaVars, tableVars, imageVars, stringVars, typesVars, refsVars, readersVars, rowsVars, rootVars, loadVars>>

-----------------------------------------------------------------------------
(* TypeReader: TypeDef rows to types *)

\* the TableIndex values [from, to) in ascending order
IndexRange(from, to) == [k \in 1 .. (IF to > from THEN to - from ELSE 0) |-> from + k - 1]

\* TypeDef rows tried: fields and methods point into tables of nf and nm rows
\* (or one past their end), and do not decrease from row to row
TypeDefRows(nf, nm) == {[fields |-> f, methods |-> m] : f \in 1 .. nf + 1, m \in 1 .. nm + 1}
TypeDefTables(nf, nm) ==
    {t \in SeqsUpTo(TypeDefRows(nf, nm), MaxTypeDefs) :
        \A i \in 1 .. Len(t) - 1 : /\ t[i].fields <= t[i + 1].fields
                                   /\ t[i].methods <= t[i + 1].methods}

\* Type::default()
Void == [kind |-> "Void"]

\* TypeReader::read_type_definition(index): types[index] becomes
\* Type::Uninitialized(TypeData { fields: vec![], token, .. }) of row index + 1
read_type_definition(defs, nf, index) ==
    IF index + 1 > Len(defs) THEN [err |-> "OffsetOutOfBounds", ty |-> Void]
    ELSE [err |-> "None",
          ty |-> [kind |-> "Uninitialized", fields |-> <<>>, token |-> index + 1]]

TypesInit ==
    /\ fieldLen \in 0 .. MaxOwned
    /\ methodLen \in 0 .. MaxOwned
    /\ typeDefs \in TypeDefTables(fieldLen, methodLen)
    /\ types = [i \in 1 .. Len(typeDefs) |-> Void]
    /\ typeRes = "None"

TypesIdle ==
    /\ fieldLen = 0
    /\ methodLen = 0
    /\ typeDefs = <<>>
    /\ types = <<>>
    /\ typeRes = "None"

\* reader.read_type_definition(index, &mut types), for every index of types
\* and the one past the last TypeDef row
ReadTypeDefinition ==
    \E index \in 0 .. Len(typeDefs) :
        LET r == read_type_definition(typeDefs, fieldLen, index)
        IN  /\ typeRes' = r.err
            /\ types' = IF r.err = "None" THEN [types EXCEPT ![index + 1] = r.ty] ELSE types
            /\ UNCHANGED <<typeDefs, fieldLen, methodLen>>
            /\ UNCHANGED <<streamVars, blobVars, codedVars, heapVars, rvaVars, tableVars, imageVars, stringVars, getTableVars, refsVars, readersVars, rowsVars, rootVars, loadVars>>

-----------------------------------------------------------------------------
(* AssemblyReader::read_assembly_refs *)

\* #Blob heaps tried: blobs of length 0, 1 and 2 and their payload
RefBlobSample == {0, 1, 2}
RefBlobHeaps == SeqsUpTo(RefBlobSample, MaxBlobLen)

\* AssemblyRef rows tried: the two blob indices of the row
AssemblyRefRows ==
    {[public_key |-> p, hash_value |-> h] : p \in BlobIndexSample, h \in BlobIndexSample}

NoDependency == [op |-> "new", err |-> "None", public_key |-> <<>>, hash_value |-> <<>>]

\* the body of the loop of read_assembly_refs: the AssemblyRef pushed for one
\* row, both blobs read with blobs.get_blob(ass_ref.public_key())?
read_assembly_ref(blobs, ass_ref) ==
    LET public_key == get_blob(blobs, ass_ref.public_key)
        hash_value == get_blob(blobs, ass_ref.public_key)
    IN  IF public_key.err # "None" THEN [NoDependency EXCEPT !.err = public_key.err]
        ELSE IF hash_value.err # "None" THEN [NoDependency EXCEPT !.err = hash_value.err]
        ELSE [NoDependency EXCEPT !.public_key = public_key.val,
                                  !.hash_value = hash_value.val]

RefsInit ==
    /\ blobBytes \in RefBlobHeaps
    /\ blobRes = NoBlobRes
    /\ assRef \in AssemblyRefRows
    /\ dependency = NoDependency

RefsIdle ==
    /\ assRef = [public_key |-> 0, hash_value |-> 0]
    /\ dependency = NoDependency

\* one turn of the loop of read_assembly_refs
ReadAssemblyRef ==
    /\ dependency.op = "new"
    /\ dependency' = [read_assembly_ref(blobBytes, assRef) EXCEPT !.op = "read_assembly_refs"]
    /\ UNCHANGED assRef
    /\ UNCHANGED <<streamVars, blobVars, codedVars, heapVars, rvaVars, tableVars, imageVars, stringVars, getTableVars, typesVars, readersVars, rowsVars, rootVars, loadVars>>

-----------------------------------------------------------------------------
(* Several iterators over one table view *)

\* table views whose rows differ from each other: the bytes 1, 2, 3, ...
ReaderViews ==
    {[cols |-> c, bytes |-> [i \in 1 .. n * SumSeq(c) |-> i]] :
        c \in ColumnSample, n \in 0 .. MaxTableRows}

\* MetadataTable::iter: a clone of the view and a ByteStream of its own
NewIter == [position |-> 0, items |-> <<>>, done |-> FALSE]

\* Iterator::next on one reader that all iterators of the view share
iter_next_shared(its, i, t) ==
    IF Len(t.bytes) - its[i].position = 0
    THEN [its EXCEPT ![i].done = TRUE]
    ELSE LET r == parse_row(t, its[i].position, 1, <<>>, FALSE)
         IN  [j \in DOMAIN its |->
                IF j = i
                THEN [position |-> r.position,
                      items |-> Append(its[i].items, [err |-> r.err, val |-> r.val]),
                      done |-> FALSE]
                ELSE [its[j] EXCEPT !.position = r.position]]

\* Iterator::next of iterator i, on self.reader and self.table
iter_next(its, i, t) ==
    IF Len(t.bytes) - its[i].position = 0
    THEN [its EXCEPT ![i].done = TRUE]
    ELSE LET r == parse_row(t, its[i].position, 1, <<>>, FALSE)
         IN  [its EXCEPT ![i] = [position |-> r.position,
                                 items |-> Append(its[i].items, [err |-> r.err, val |-> r.val]),
                                 done |-> FALSE]]

ReadersInit ==
    /\ view \in ReaderViews
    /\ viewIter = NewIter
    /\ viewRow = [op |-> "new", index |-> 0, checks |-> FALSE, err |-> "None", val |-> <<>>]
    /\ iters = [i \in 1 .. MaxIters |-> NewIter]

ReadersIdle == iters = <<>>

\* next() on one of the iterators
IterNext ==
    \E i \in DOMAIN iters :
        /\ ~iters[i].done
        /\ iters' = iter_next(iters, i, view)
        /\ UNCHANGED <<streamVars, blobVars, codedVars, heapVars, rvaVars, tableVars, imageVars, stringVars, getTableVars, typesVars, refsVars, rowsVars, rootVars, loadVars>>

-----------------------------------------------------------------------------
(* Table rows: the row schemas, calc_row_size, parse_row and iter() *)

\* a field read with reader.read(): size_of of its type
Scalar(n) == [c |-> "size_of", n |-> n, of |-> "-"]
\* #[heap_index(H)]
HeapIndex(h) == [c |-> "heap_index", n |-> 0, of |-> h]
\* #[table_index(T)]
TableIndex(table) == [c |-> "table_index", n |-> 0, of |-> table]
\* #[coded_index(K)]
CodedIndex(kind) == [c |-> "coded_index", n |-> 0, of |-> kind]

\* the fields of the row structs with #[derive(MetadataTable)], in
\* declaration order
RowFields(kind) ==
    CASE kind = "Module" ->
            <<Scalar(2), HeapIndex("String"), HeapIndex("Guid"),
              HeapIndex("Guid"), HeapIndex("Guid")>>
      [] kind = "TypeRef" ->
            <<CodedIndex("TypeOrMethodDef"), HeapIndex("String"),
              HeapIndex("String")>>
      [] kind = "TypeDef" ->
            <<Scalar(4), HeapIndex("String"), HeapIndex("String"),
              CodedIndex("TypeDefOrRef"), TableIndex("Field"),
              TableIndex("MethodDef")>>
      [] kind = "Field" -> <<Scalar(2), HeapIndex("String"), HeapIndex("Blob")>>
      [] kind = "MethodDef" ->
            <<Scalar(4), Scalar(2), Scalar(2), HeapIndex("String"),
              HeapIndex("Blob"), TableIndex("Param")>>
      [] kind = "Param" -> <<Scalar(2), Scalar(2), HeapIndex("String")>>
      [] kind = "InterfaceImpl" ->
            <<TableIndex("TypeRef"), CodedIndex("TypeDefOrRef")>>
      [] kind = "MemberRef" ->
            <<CodedIndex("MemberRefParent"), HeapIndex("String"),
              HeapIndex("Blob")>>
      [] kind = "CustomAttribute" ->
            <<CodedIndex("HasCustomAttribute"),
              CodedIndex("CustomAttributeType"), HeapIndex("Blob")>>
      [] kind = "Constant" ->
            <<Scalar(1), Scalar(1), CodedIndex("HasConstant"),
              HeapIndex("Blob")>>
      [] kind = "ClassLayout" -> <<Scalar(2), Scalar(4), TableIndex("TypeDef")>>
      [] kind = "PropertyMap" ->
            <<TableIndex("TypeDef"), TableIndex("Property")>>
      [] kind = "Property" ->
            <<Scalar(2), HeapIndex("String"), HeapIndex("Blob")>>
      [] kind = "MethodSemantics" ->
            <<Scalar(2), TableIndex("MethodDef"), CodedIndex("HasSemantics")>>
      [] kind = "TypeSpec" -> <<HeapIndex("Blob")>>
      [] kind = "FieldMarshal" ->
            <<CodedIndex("HasFieldMarshal"), HeapIndex("Blob")>>
      [] kind = "MethodImpl" ->
            <<TableIndex("TypeDef"), CodedIndex("MethodDefOrRef"),
              CodedIndex("MethodDefOrRef")>>
      [] kind = "ModuleRef" -> <<HeapIndex("String")>>
      [] kind = "ImplMap" ->
            <<Scalar(2), CodedIndex("MemberForwarded"), HeapIndex("String"),
              TableIndex("ModuleRef")>>
      [] kind = "DeclSecurity" ->
            <<Scalar(2), CodedIndex("HasDeclSecurity"), HeapIndex("Blob")>>
      [] kind = "FieldRVA" -> <<Scalar(4), TableIndex("Field")>>
      [] kind = "FieldLayout" -> <<Scalar(4), TableIndex("Field")>>
      [] kind = "EventMap" -> <<TableIndex("TypeDef"), TableIndex("Event")>>
      [] kind = "Event" ->
            <<Scalar(2), HeapIndex("String"), CodedIndex("TypeDefOrRef")>>
      [] kind = "AssemblyRef" ->
            <<Scalar(2), Scalar(2), Scalar(2), Scalar(2), Scalar(4),
              HeapIndex("Blob"), HeapIndex("String"), HeapIndex("String"),
              HeapIndex("Blob")>>

\* the kinds whose table type is written by hand
HandWritten == {"Assembly", "StandAloneSig"}

\* StringHeap::idx_size, GuidHeap::idx_size, BlobHeap::idx_size: one bit of
\* heap_sizes each
heap_idx_size(hs, h) ==
    LET bit == CASE h = "String" -> 1 [] h = "Guid" -> 2 [] h = "Blob" -> 4
    IN  IF BitAnd(hs, bit) # 0 THEN Fat ELSE Slim

\* the bytes of one field: the term of calc_row_size and the width the table
\* struct keeps for parse_row, which the derive writes from the same attribute
field_size(f, hs, v, r) ==
    CASE f.c = "size_of" -> f.n
      [] f.c = "heap_index" -> heap_idx_size(hs, f.of)
      [] f.c = "table_index" -> idx_size(v, r, f.of)
      [] f.c = "coded_index" -> get_size(f.of, v, r)

\* the widths AssemblyTable::parse_row reads: hash_algorithm, four u16 of the
\* version, flags, public_key, name, culture
AssemblyTable_reads(hs) ==
    <<4, 2, 2, 2, 2, 4, heap_idx_size(hs, "Blob"), heap_idx_size(hs, "String"),
      heap_idx_size(hs, "String")>>

\* AssemblyTable::calc_row_size
AssemblyTable_calc_row_size(hs) ==
    16 + heap_idx_size(hs, "Blob") + heap_idx_size(hs, "String") * 2

\* the widths parse_row of a table type of cli-toolkit reads, in order
row_reads(kind, hs, v, r) ==
    CASE kind = "Assembly" -> AssemblyTable_reads(hs)
      [] kind = "StandAloneSig" -> <<heap_idx_size(hs, "Blob")>>
      [] OTHER -> [i \in DOMAIN RowFields(kind) |->
                      field_size(RowFields(kind)[i], hs, v, r)]

\* MetadataTableImpl::calc_row_size of a table type of cli-toolkit
calc_row_size(kind, hs, v, r) ==
    CASE kind = "Assembly" -> AssemblyTable_calc_row_size(hs)
      [] kind = "StandAloneSig" -> heap_idx_size(hs, "Blob")
      [] OTHER -> SumSeq([i \in DOMAIN RowFields(kind) |->
                             field_size(RowFields(kind)[i], hs, v, r)])

\* TypeRefTable of __impl_multi_row_table!: the table fields res_size and
\* str_size as Table(tables) assigns them
MultiRow_TypeRef_res_size(hs, v, r) == heap_idx_size(hs, "String")
MultiRow_TypeRef_str_size(hs, v, r) == get_size("TypeOrMethodDef", v, r)

\* its Row(self, reader): resolution_scope with res_size, type_name and
\* type_namespace with str_size
MultiRow_TypeRef_reads(hs, v, r) ==
    <<MultiRow_TypeRef_res_size(hs, v, r), MultiRow_TypeRef_str_size(hs, v, r),
      MultiRow_TypeRef_str_size(hs, v, r)>>

\* its row_size block: r + s * 2
MultiRow_TypeRef_row_size(hs, v, r) ==
    get_size("TypeOrMethodDef", v, r) + heap_idx_size(hs, "String") * 2

\* the table types that implement a kind: the one of cli-toolkit, and for
\* TypeRef also the one __impl_multi_row_table! writes
Derive == "derive"
MultiRow == "multi_row_table"
ImplsOf(kind) == IF kind = "TypeRef" THEN {Derive, MultiRow} ELSE {Derive}

\* MetadataTableImpl::new: the view over the slice get_table found, with the
\* widths parse_row reads (cols) and row_size from calc_row_size
table_new(impl, kind, slice, hs, v, r) ==
    IF impl = MultiRow
    THEN [cols |-> MultiRow_TypeRef_reads(hs, v, r), bytes |-> slice,
          row_size |-> MultiRow_TypeRef_row_size(hs, v, r)]
    ELSE [cols |-> row_reads(kind, hs, v, r), bytes |-> slice,
          row_size |-> calc_row_size(kind, hs, v, r)]

\* MetadataTable::len
MetadataTable_len(t) == Len(t.bytes) \div t.row_size

\* one item of an iterator: the result of a parse_row and the bytes it took
RowItem(r, from) == [err |-> r.err, consumed |-> r.position - from]

NoRowIter ==
    [op |-> "new", impl |-> "-", position |-> 0, pending |-> <<>>,
     items |-> <<>>, done |-> FALSE]

\* MetadataTable::iter: the derived iterator starts a reader at 0; the
\* hand-written tables parse one row at once and return
\* Some(row).into_iter()
table_iter(impl, kind, t) ==
    IF kind \in HandWritten
    THEN [NoRowIter EXCEPT !.op = "iter", !.impl = impl,
              !.pending = <<RowItem(parse_row(t, 0, 1, <<>>, FALSE), 0)>>]
    ELSE [NoRowIter EXCEPT !.op = "iter", !.impl = impl]

\* Iterator::next: option::IntoIter hands out its item once; the derived
\* iterator parses a row while reader.remaining() is not 0
table_iter_next(kind, t, it) ==
    IF kind \in HandWritten
    THEN IF it.pending # <<>>
         THEN [it EXCEPT !.items = Append(@, Head(it.pending)),
                         !.pending = <<>>]
         ELSE [it EXCEPT !.done = TRUE]
    ELSE IF Len(t.bytes) - it.position = 0
         THEN [it EXCEPT !.done = TRUE]
         ELSE LET r == parse_row(t, it.position, 1, <<>>, FALSE)
              IN  [it EXCEPT !.position = r.position,
                             !.items = Append(@, RowItem(r, it.position))]

\* the #~ streams read: one or two tables with a row schema
RowsTableSets == {{TableKind[a], TableKind[b]} : a, b \in Schemas}

\* row counts of the table next to the one iterated: all indices slim, coded
\* indices with two or more tag bits fat, every index fat
OtherRows == {1, 2 ^ 14, 2 ^ 16}

\* row-count vectors: one table has up to MaxTableRows rows
RowsVectors(n) ==
    {[i \in 1 .. n |-> IF i = j THEN c ELSE d] :
        j \in 1 .. n, c \in 0 .. MaxTableRows, d \in OtherRows}

\* the bytes of the tables of a #~ stream: from and to of every kind
RECURSIVE TablesEnd(_, _, _, _)
TablesEnd(present, v, r, hs) ==
    IF present = {} THEN 24 + 4 * Cardinality(v)
    ELSE LET id == CHOOSE a \in present : \A c \in present : a >= c
         IN  TablesEnd(present \ {id}, v, r, hs)
                 + row_count(v, r, KindOf(id)) * calc_row_size(KindOf(id), hs, v, r)

\* the bytes of a view: the content does not matter to the widths
ViewBytes(n) == [i \in 1 .. n |-> i % 4]

RowsInit ==
    /\ valid \in RowsTableSets
    /\ rows \in RowsVectors(Cardinality(valid))
    /\ width = NoWidth
    /\ rowCount = NoCount
    /\ heapSizes \in 0 .. 7
    /\ rowSizes = [k \in Schemas |-> calc_row_size(k, heapSizes, valid, rows)]
    /\ heapLen = TablesEnd(valid, valid, rows, heapSizes)
    /\ got = NoGot
    /\ rowIter = NoRowIter

RowsIdle == heapSizes = 0 /\ rowIter = NoRowIter

\* the view of the table got
GotView(impl) ==
    table_new(impl, got.of, ViewBytes(got.to - got.from), heapSizes, valid, rows)

\* get_table::<T>() for a present kind
GetPresentTable ==
    \E T \in Schemas :
        /\ has_table(valid, T)
        /\ got.op = "new"
        /\ got' = [op |-> "get_table", of |-> T] @@ get_table(valid, rows, rowSizes, heapLen, T)
        /\ UNCHANGED <<rowSizes, heapLen, heapSizes, rowIter>>
        /\ UNCHANGED <<streamVars, blobVars, codedVars, heapVars, rvaVars, tableVars, imageVars, stringVars, typesVars, refsVars, readersVars, rootVars, loadVars>>

\* iter() on the view, for a table of at most MaxTableRows rows
TableIter ==
    \E impl \in ImplsOf(got.of) :
        /\ got.op = "get_table" /\ got.some
        /\ row_count(valid, rows, got.of) <= MaxTableRows
        /\ rowIter.op = "new"
        /\ rowIter' = table_iter(impl, got.of, GotView(impl))
        /\ UNCHANGED heapSizes
        /\ UNCHANGED <<streamVars, blobVars, codedVars, heapVars, rvaVars, tableVars, imageVars, stringVars, getTableVars, typesVars, refsVars, readersVars, rootVars, loadVars>>

\* next() on the iterator, up to one more item than the table has rows
RowIterNext ==
    /\ rowIter.op = "iter" /\ ~rowIter.done
    /\ Len(rowIter.items) <= MaxTableRows
    /\ rowIter' = table_iter_next(got.of, GotView(rowIter.impl), rowIter)
    /\ UNCHANGED heapSizes
    /\ UNCHANGED <<streamVars, blobVars, codedVars, heapVars, rvaVars, tableVars, imageVars, stringVars, getTableVars, typesVars, refsVars, readersVars, rootVars, loadVars>>

-----------------------------------------------------------------------------
(* The metadata root alone: version length and stream-header padding *)

\* a stream name of n bytes
NameOfLen(n) == [i \in 1 .. n |-> 97]
NameLens == 0 .. 7

\* the lists of at most n stream names
RECURSIVE NameLists(_)
NameLists(n) ==
    IF n = 0 THEN {<<>>}
    ELSE LET shorter == NameLists(n - 1)
         IN  shorter \cup {Append(s, NameOfLen(k)) : s \in shorter, k \in NameLens}

\* version strings and declared lengths of the version field
VersionSample == {<<>>, <<118, 52>>}
LengthSample == {0, 1, 2, 3, 4, 8}

RootLayouts ==
    [names : NameLists(MaxStreams), version : VersionSample, length : LengthSample]

\* the bytes of the version field: the string, its NUL and zeros up to the
\* declared length
VersionField(l) ==
    l.version \o <<0>>
    \o (IF l.length > Len(l.version) + 1
        THEN Zeros(l.length - Len(l.version) - 1) ELSE <<>>)

\* offset of the stream data from the start of the root
RootDataAt(l) ==
    16 + Len(VersionField(l)) + 4
    + SumSeq([i \in 1 .. Len(l.names) |-> 8 + Len(PaddedName(l.names[i]))])

\* the stream headers of the root
RootStreamHeaders(l) ==
    Flatten([i \in 1 .. Len(l.names) |->
                LEBytes(RootDataAt(l), 4) \o LEBytes(Len(StreamData), 4)
                \o PaddedName(l.names[i])])

\* a buffer that holds a metadata root at offset 0 and the stream data
RootImage(l) ==
    SigRoot \o LEBytes(1, 2) \o LEBytes(1, 2) \o Zeros(4)
    \o LEBytes(l.length, 4) \o VersionField(l)
    \o LEBytes(0, 2) \o LEBytes(Len(l.names), 2)
    \o RootStreamHeaders(l) \o StreamData

NoRoot == [op |-> "new", checks |-> FALSE] @@ Root("None", "-", NoHeader)
NoRootIter == [position |-> 0, items |-> <<>>, done |-> FALSE]

RootInit ==
    /\ rootLayout \in RootLayouts
    /\ rootHeader = NoRoot
    /\ rootIter = NoRootIter

RootIdle ==
    /\ rootLayout = [names |-> <<>>, version |-> <<>>, length |-> 0]
    /\ rootHeader = NoRoot
    /\ rootIter = NoRootIter

\* MetadataHeader::new(bytes, 0), in a build with or without overflow checks
RootNew ==
    \E oc \in BOOLEAN :
        /\ rootHeader.op = "new"
        /\ rootHeader' = [op |-> "MetadataHeader::new", checks |-> oc]
                             @@ MetadataHeader_new(RootImage(rootLayout), 0, oc)
        /\ UNCHANGED <<rootLayout, rootIter>>
        /\ UNCHANGED <<streamVars, blobVars, codedVars, heapVars, rvaVars, tableVars, imageVars, stringVars, getTableVars, typesVars, refsVars, readersVars, rowsVars, loadVars>>

\* next() on self.stream_headers()
RootIterNext ==
    /\ rootHeader.op # "new" /\ rootHeader.err = "None"
    /\ ~rootIter.done
    /\ Len(rootIter.items) <= MaxStreams
    /\ LET h == StreamHeaderIterator_next(rootHeader.header.streams, rootIter.position)
       IN  rootIter' =
               IF ~h.some THEN [rootIter EXCEPT !.done = TRUE]
               ELSE [rootIter EXCEPT
                        !.position = h.position,
                        !.items = Append(@, [at |-> rootIter.position,
                                             err |-> h.err, name |-> h.name])]
    /\ UNCHANGED <<rootLayout, rootHeader>>
    /\ UNCHANGED <<streamVars, blobVars, codedVars, heapVars, rvaVars, tableVars, imageVars, stringVars, getTableVars, typesVars, refsVars, readersVars, rowsVars, loadVars>>

-----------------------------------------------------------------------------
(* AssemblyReader: read_assembly and the loaded-assembly cache *)

\* s.starts_with(prefix)
StartsWith(s, prefix) ==
    /\ Len(prefix) <= Len(s)
    /\ SubSeq(s, 1, Len(prefix)) = prefix

\* the find_map of read_assembly: the index of the first entry whose key
\* starts with name, 0 for None
find_entry(list, name) ==
    LET found == {i \in DOMAIN list : StartsWith(list[i].key, name)}
    IN  IF found = {} THEN 0 ELSE CHOOSE i \in found : \A j \in found : i <= j

\* the keys of the two assemblies known ("A 1.0.0.0" and "A 1.2.0.0", say) and
\* the names asked for: a prefix of both, the second key, a name of neither
KeyOrders == {<< <<1>>, <<1, 2>> >>, << <<1, 2>>, <<1>> >>}
NameSample == {<<1>>, <<1, 2>>, <<2>>}

\* the lists of at most n dependency names
RECURSIVE DepLists(_)
DepLists(n) ==
    IF n = 0 THEN {<<>>}
    ELSE LET shorter == DepLists(n - 1)
         IN  shorter \cup {Append(s, x) : s \in shorter, x \in NameSample}

\* the files on the include paths: key, AssemblyRef names in row order, and
\* whether the file still reads as an image
KnownFiles ==
    {<<[key |-> ks[1], deps |-> d1, ok |-> o1], [key |-> ks[2], deps |-> d2, ok |-> o2]>> :
        ks \in KeyOrders,
        d1 \in DepLists(MaxDeps), d2 \in DepLists(MaxDeps),
        o1 \in BOOLEAN, o2 \in BOOLEAN}

NoRead == [op |-> "new", name |-> <<>>, res |-> "-", cached |-> FALSE]

LoadInit ==
    /\ known \in KnownFiles
    /\ entries = [i \in DOMAIN known |-> "NotLoaded"]
    /\ callStack = <<>>
    /\ loads = [i \in DOMAIN known |-> 0]
    /\ readResult = NoRead
    /\ calls = 0

LoadIdle ==
    /\ known = <<>>
    /\ entries = <<>>
    /\ callStack = <<>>
    /\ loads = <<>>
    /\ readResult = NoRead
    /\ calls = 0

\* the dependency of the caller's frame is pushed: its loop goes on
Returned(stack) ==
    IF stack = <<>> THEN stack
    ELSE [stack EXCEPT ![Len(stack)].next = @ + 1]

\* self.read_assembly(name) called from the loop, up to its own first
\* recursive call: the entry is not found, is Loaded (the cached Rc is
\* returned), or is NotLoaded and the file is read; an Err leaves through
\* every caller's `?`; the recursion has room for MaxDepth frames
Enter(name) ==
    LET index == find_entry(known, name)
    IN  IF index = 0
        THEN /\ callStack' = <<>>
             /\ readResult' = [readResult EXCEPT !.res = "AssemblyNotFound"]
             /\ UNCHANGED <<entries, loads>>
        ELSE IF entries[index] = "Loaded"
        THEN /\ callStack' = Returned(callStack)
             /\ UNCHANGED <<entries, loads, readResult>>
        ELSE /\ loads' = [loads EXCEPT ![index] = @ + 1]
             /\ UNCHANGED entries
             /\ IF ~known[index].ok
                THEN /\ callStack' = <<>>
                     /\ readResult' = [readResult EXCEPT !.res = "InvalidAssembly"]
                ELSE IF Len(callStack) >= MaxDepth
                THEN /\ callStack' = callStack
                     /\ readResult' = [readResult EXCEPT !.res = "StackOverflow"]
                ELSE /\ callStack' = Append(callStack, [index |-> index, next |-> 1])
                     /\ UNCHANGED readResult

\* a call of reader.read_assembly(name) by the user
ReadAssembly ==
    \E name \in NameSample :
        /\ callStack = <<>>
        /\ calls < MaxCalls
        /\ calls' = calls + 1
        /\ LET started == [op |-> "read_assembly", name |-> name, res |-> "-",
                           cached |-> FALSE]
               index == find_entry(known, name)
           IN  IF index = 0
               THEN /\ readResult' = [started EXCEPT !.res = "AssemblyNotFound"]
                    /\ UNCHANGED <<entries, loads, callStack>>
               ELSE IF entries[index] = "Loaded"
               THEN /\ readResult' = [started EXCEPT !.res = "Ok", !.cached = TRUE]
                    /\ UNCHANGED <<entries, loads, callStack>>
               ELSE /\ loads' = [loads EXCEPT ![index] = @ + 1]
                    /\ UNCHANGED entries
                    /\ IF ~known[index].ok
                       THEN /\ readResult' = [started EXCEPT !.res = "InvalidAssembly"]
                            /\ UNCHANGED callStack
                       ELSE /\ readResult' = started
                            /\ callStack' = <<[index |-> index, next |-> 1]>>
        /\ UNCHANGED known
        /\ UNCHANGED <<streamVars, blobVars, codedVars, heapVars, rvaVars, tableVars, imageVars, stringVars, getTableVars, typesVars, refsVars, readersVars, rowsVars, rootVars>>

\* the loop over deps.iter(): dependencies.push(self.read_assembly(&name)?)
ReadDependency ==
    /\ callStack # <<>>
    /\ readResult.res = "-"
    /\ LET top == callStack[Len(callStack)]
       IN  /\ top.next <= Len(known[top.index].deps)
           /\ Enter(known[top.index].deps[top.next])
    /\ UNCHANGED <<known, calls>>
    /\ UNCHANGED <<streamVars, blobVars, codedVars, heapVars, rvaVars, tableVars, imageVars, stringVars, getTableVars, typesVars, refsVars, readersVars, rowsVars, rootVars>>

\* behind the loop: the entry becomes Loaded and the assembly is returned
StoreLoaded ==
    /\ callStack # <<>>
    /\ readResult.res = "-"
    /\ LET top == callStack[Len(callStack)]
           rest == SubSeq(callStack, 1, Len(callStack) - 1)
       IN  /\ top.next > Len(known[top.index].deps)
           /\ entries' = [entries EXCEPT ![top.index] = "Loaded"]
           /\ callStack' = Returned(rest)
           /\ readResult' = IF rest = <<>>
                            THEN [readResult EXCEPT !.res = "Ok"]
                            ELSE readResult
    /\ UNCHANGED <<known, loads, calls>>
    /\ UNCHANGED <<streamVars, blobVars, codedVars, heapVars, rvaVars, tableVars, imageVars, stringVars, getTableVars, typesVars, refsVars, readersVars, rowsVars, rootVars>>

-----------------------------------------------------------------------------
(* Specifications *)

vars == <<streamVars, blobVars, codedVars, heapVars, rvaVars, tableVars, imageVars, stringVars, getTableVars, typesVars, refsVars, readersVars, rowsVars, rootVars, loadVars>>

InitStream == StreamInit /\ BlobIdle /\ CodedIdle /\ HeapIdle /\ RvaIdle /\ TableIdle /\ ImageIdle /\ StringIdle /\ GetTableIdle /\ TypesIdle /\ RefsIdle /\ ReadersIdle /\ RowsIdle /\ RootIdle /\ LoadIdle
NextStream == StreamNext
SpecStream == InitStream /\ [][NextStream]_vars

InitBlob == StreamIdle /\ BlobInit /\ CodedIdle /\ HeapIdle /\ RvaIdle /\ TableIdle /\ ImageIdle /\ StringIdle /\ GetTableIdle /\ TypesIdle /\ RefsIdle /\ ReadersIdle /\ RowsIdle /\ RootIdle /\ LoadIdle
NextBlob == GetBlob
SpecBlob == InitBlob /\ [][NextBlob]_vars

InitCoded == StreamIdle /\ BlobIdle /\ CodedInit /\ HeapIdle /\ RvaIdle /\ TableIdle /\ ImageIdle /\ StringIdle /\ GetTableIdle /\ TypesIdle /\ RefsIdle /\ ReadersIdle /\ RowsIdle /\ RootIdle /\ LoadIdle
NextCoded ==
    \/ Encode
    \/ ReadCodedIndex
    \/ Decode
SpecCoded == InitCoded /\ [][NextCoded]_vars

InitHeap == StreamIdle /\ BlobIdle /\ CodedIdle /\ HeapInit /\ RvaIdle /\ TableIdle /\ ImageIdle /\ StringIdle /\ GetTableIdle /\ TypesIdle /\ RefsIdle /\ ReadersIdle /\ RowsIdle /\ RootIdle /\ LoadIdle
NextHeap ==
    \/ GetSize
    \/ IdxSize
SpecHeap == InitHeap /\ [][NextHeap]_vars

InitMask == StreamIdle /\ BlobIdle /\ CodedIdle /\ MaskInit /\ RvaIdle /\ TableIdle /\ ImageIdle /\ StringIdle /\ GetTableIdle /\ TypesIdle /\ RefsIdle /\ ReadersIdle /\ RowsIdle /\ RootIdle /\ LoadIdle
NextMask == RowCount
SpecMask == InitMask /\ [][NextMask]_vars

InitRva == StreamIdle /\ BlobIdle /\ CodedIdle /\ HeapIdle /\ RvaInit /\ TableIdle /\ ImageIdle /\ StringIdle /\ GetTableIdle /\ TypesIdle /\ RefsIdle /\ ReadersIdle /\ RowsIdle /\ RootIdle /\ LoadIdle
NextRva == ResolveRva
SpecRva == InitRva /\ [][NextRva]_vars

InitTable == StreamIdle /\ BlobIdle /\ CodedIdle /\ HeapIdle /\ RvaIdle /\ TableInit /\ ImageIdle /\ StringIdle /\ GetTableIdle /\ TypesIdle /\ RefsIdle /\ ReadersIdle /\ RowsIdle /\ RootIdle /\ LoadIdle
NextTable ==
    \/ TableGet
    \/ TableIterNext
SpecTable == InitTable /\ [][NextTable]_vars

InitImage == StreamIdle /\ BlobIdle /\ CodedIdle /\ HeapIdle /\ RvaIdle /\ TableIdle /\ ImageInit /\ StringIdle /\ GetTableIdle /\ TypesIdle /\ RefsIdle /\ ReadersIdle /\ RowsIdle /\ RootIdle /\ LoadIdle
NextImage ==
    \/ TryFrom
    \/ GetHeap
SpecImage == InitImage /\ [][NextImage]_vars

InitString == StreamIdle /\ BlobIdle /\ CodedIdle /\ HeapIdle /\ RvaIdle /\ TableIdle /\ ImageIdle /\ StringInit /\ GetTableIdle /\ TypesIdle /\ RefsIdle /\ ReadersIdle /\ RowsIdle /\ RootIdle /\ LoadIdle
NextString == GetString
SpecString == InitString /\ [][NextString]_vars

InitGetTable == StreamIdle /\ BlobIdle /\ CodedIdle /\ GetTableInit /\ RvaIdle /\ TableIdle /\ ImageIdle /\ StringIdle /\ TypesIdle /\ RefsIdle /\ ReadersIdle /\ RowsIdle /\ RootIdle /\ LoadIdle
NextGetTable == GetTable
SpecGetTable == InitGetTable /\ [][NextGetTable]_vars

InitTypes == StreamIdle /\ BlobIdle /\ CodedIdle /\ HeapIdle /\ RvaIdle /\ TableIdle /\ ImageIdle /\ StringIdle /\ GetTableIdle /\ TypesInit /\ RefsIdle /\ ReadersIdle /\ RowsIdle /\ RootIdle /\ LoadIdle
NextTypes == ReadTypeDefinition
SpecTypes == InitTypes /\ [][NextTypes]_vars

InitRefs == StreamIdle /\ CodedIdle /\ HeapIdle /\ RvaIdle /\ TableIdle /\ ImageIdle /\ StringIdle /\ GetTableIdle /\ TypesIdle /\ RefsInit /\ ReadersIdle /\ RowsIdle /\ RootIdle /\ LoadIdle
NextRefs == ReadAssemblyRef
SpecRefs == InitRefs /\ [][NextRefs]_vars

InitReaders == StreamIdle /\ BlobIdle /\ CodedIdle /\ HeapIdle /\ RvaIdle /\ ImageIdle /\ StringIdle /\ GetTableIdle /\ TypesIdle /\ RefsIdle /\ ReadersInit /\ RowsIdle /\ RootIdle /\ LoadIdle
NextReaders ==
    \/ IterNext
    \/ TableGet
SpecReaders == InitReaders /\ [][NextReaders]_vars

InitRows == StreamIdle /\ BlobIdle /\ CodedIdle /\ RvaIdle /\ TableIdle /\ ImageIdle /\ StringIdle /\ TypesIdle /\ RefsIdle /\ ReadersIdle /\ RowsInit /\ RootIdle /\ LoadIdle
NextRows == GetPresentTable \/ TableIter \/ RowIterNext
SpecRows == InitRows /\ [][NextRows]_vars

InitRoot == StreamIdle /\ BlobIdle /\ CodedIdle /\ HeapIdle /\ RvaIdle /\ TableIdle /\ ImageIdle /\ StringIdle /\ GetTableIdle /\ TypesIdle /\ RefsIdle /\ ReadersIdle /\ RowsIdle /\ RootInit /\ LoadIdle
NextRoot == RootNew \/ RootIterNext
SpecRoot == InitRoot /\ [][NextRoot]_vars

InitLoad == StreamIdle /\ BlobIdle /\ CodedIdle /\ HeapIdle /\ RvaIdle /\ TableIdle /\ ImageIdle /\ StringIdle /\ GetTableIdle /\ TypesIdle /\ RefsIdle /\ ReadersIdle /\ RowsIdle /\ RootIdle /\ LoadInit
NextLoad == ReadAssembly \/ ReadDependency \/ StoreLoaded
SpecLoad == InitLoad /\ [][NextLoad]_vars
\* a call that has started runs on: the recursion is one thread of control
SpecLoadLive == SpecLoad /\ WF_vars(ReadDependency) /\ WF_vars(StoreLoaded)

-----------------------------------------------------------------------------
(* Claims about the byte cursor, checked under SpecStream *)

\* C1: after any sequence of ByteStream operations, failed or not, the cursor
\* satisfies 0 <= position <= len(buffer).
C1_PositionInBounds == 0 <= position /\ position <= Len(bytes)

\* C1 witness: a failed read has just left the cursor at the very end of a
\* non-empty buffer.
C1_Witness ==
    /\ res.op = "read_slice"
    /\ res.err = "UnexpectedEndOfStream"
    /\ Len(bytes) > 0
    /\ position = Len(bytes)

\* C2: read_slice::<u8>(n) at position p succeeds with buf[p..p+n] and moves
\* to p + n when p + n <= len(buf); otherwise it fails with
\* UnexpectedEndOfStream and the position is still p.
C2_ReadSliceContract ==
    (res.op = "read_slice" /\ res.size = 1) =>
        IF res.prev + res.n <= Len(bytes)
        THEN /\ res.err = "None"
             /\ res.val = SubSeq(bytes, res.prev + 1, res.prev + res.n)
             /\ position = res.prev + res.n
        ELSE /\ res.err = "UnexpectedEndOfStream"
             /\ position = res.prev

\* C3: seek(p) succeeds and sets the position to p for every p <= len(buffer),
\* p = len(buffer) included, and fails with OffsetOutOfBounds, position
\* unchanged, exactly when p > len(buffer).
C3_SeekContract ==
    res.op = "seek" =>
        IF res.n <= Len(bytes)
        THEN res.err = "None" /\ position = res.n
        ELSE res.err = "OffsetOutOfBounds" /\ position = res.prev

-----------------------------------------------------------------------------
(* Claims about the blob heap, checked under SpecBlob *)

\* the blob at heap offset idx as the claim reads it: the size of the length
\* prefix selected by the first byte's high bits, and the big-endian length
\* with the tag bits masked off
PrefixSize(b0) == IF b0 < 128 THEN 1 ELSE IF b0 < 192 THEN 2 ELSE 4
PrefixLength(heap, idx) ==
    LET b0 == heap[idx + 1]
    IN  IF b0 < 128 THEN b0
        ELSE IF b0 < 192 THEN (b0 - 128) * 256 + heap[idx + 2]
        ELSE (b0 - 192) * 2 ^ 24 + heap[idx + 2] * 2 ^ 16
             + heap[idx + 3] * 256 + heap[idx + 4]

\* C4: get_blob(idx) decodes the length prefix at idx by the first byte's
\* high bits (0b0xxxxxxx: 1 byte, 0b10xxxxxx: 2 bytes big-endian,
\* 0b110xxxxx: 4 bytes big-endian, tag bits masked off) and returns exactly
\* the `length` bytes that follow the prefix; a first byte in 0xE0..=0xFF
\* yields InvalidData.
C4_BlobContract ==
    (blobRes.op = "get_blob" /\ blobRes.index < Len(blobBytes)) =>
        LET idx == blobRes.index
            b0  == blobBytes[idx + 1]
            end == idx + PrefixSize(b0)
        IN  IF b0 >= 224 THEN blobRes.err = "InvalidData"
            ELSE IF end > Len(blobBytes) THEN blobRes.err # "None"
            ELSE LET length == PrefixLength(blobBytes, idx)
                 IN  /\ blobRes.length = length
                     /\ IF end + length <= Len(blobBytes)
                        THEN /\ blobRes.err = "None"
                             /\ blobRes.val = SubSeq(blobBytes, end + 1, end + length)
                        ELSE blobRes.err # "None"

-----------------------------------------------------------------------------
(* Claims about coded indices, checked under SpecCoded *)

\* The coded-index sets of spec section 6.1: the tag bits of each kind and its
\* table list, list position = tag value ("-" marks an unused position).
SetHasCustomAttribute ==
    <<"MethodDef", "Field", "TypeRef", "TypeDef", "Param", "InterfaceImpl",
      "MemberRef", "Module", "DeclSecurity", "Property", "Event",
      "StandAloneSig", "ModuleRef", "TypeSpec", "Assembly", "AssemblyRef",
      "File", "ExportedType", "ManifestResource", "GenericParam",
      "GenericParamConstraint", "MethodSpec">>

CodedSet(kind) ==
    CASE kind = "TypeDefOrRef" -> [bits |-> 2, set |-> <<"TypeDef", "TypeRef", "TypeSpec">>]
      [] kind = "HasConstant" -> [bits |-> 2, set |-> <<"Field", "Param", "Property">>]
      [] kind = "HasCustomAttribute" -> [bits |-> 5, set |-> SetHasCustomAttribute]
      [] kind = "HasFieldMarshal" -> [bits |-> 1, set |-> <<"Field", "Param">>]
      [] kind = "HasDeclSecurity" ->
            [bits |-> 2, set |-> <<"TypeDef", "MethodDef", "Assembly">>]
      [] kind = "MemberRefParent" ->
            [bits |-> 3,
             set |-> <<"TypeDef", "TypeRef", "ModuleRef", "MethodDef", "TypeSpec">>]
      [] kind = "HasSemantics" -> [bits |-> 1, set |-> <<"Event", "Property">>]
      [] kind = "MethodDefOrRef" -> [bits |-> 1, set |-> <<"MethodDef", "MemberRef">>]
      [] kind = "MemberForwarded" -> [bits |-> 1, set |-> <<"Field", "MethodDef">>]
      [] kind = "Implementation" ->
            [bits |-> 2, set |-> <<"File", "AssemblyRef", "ExportedType">>]
      [] kind = "CustomAttributeType" ->
            [bits |-> 3, set |-> <<"-", "-", "MethodDef", "MemberRef", "-">>]
      [] kind = "ResolutionScope" ->
            [bits |-> 2, set |-> <<"Module", "ModuleRef", "AssemblyRef", "TypeRef">>]
      [] kind = "TypeOrMethodDef" -> [bits |-> 1, set |-> <<"TypeDef", "MethodDef">>]
      [] kind = "HasCustomDebugInformation" ->
            [bits |-> 5,
             set |-> SetHasCustomAttribute \o
                     <<"Document", "LocalScope", "LocalVariable", "LocalConstant",
                       "ImportScope">>]

\* The table ids of spec section 6.1 (the table tag byte of a token).
TableId ==
    [Module |-> 0, TypeRef |-> 1, TypeDef |-> 2, Field |-> 4, MethodDef |-> 6,
     Param |-> 8, InterfaceImpl |-> 9, MemberRef |-> 10, Constant |-> 11,
     CustomAttribute |-> 12, FieldMarshal |-> 13, DeclSecurity |-> 14,
     ClassLayout |-> 15, FieldLayout |-> 16, StandAloneSig |-> 17,
     EventMap |-> 18, Event |-> 20, PropertyMap |-> 21, Property |-> 23,
     MethodSemantics |-> 24, MethodImpl |-> 25, ModuleRef |-> 26,
     TypeSpec |-> 27, ImplMap |-> 28, FieldRVA |-> 29, Assembly |-> 32,
     AssemblyRef |-> 35, File |-> 38, ExportedType |-> 39,
     ManifestResource |-> 40, NestedClass |-> 41, GenericParam |-> 42,
     MethodSpec |-> 43, GenericParamConstraint |-> 44, Document |-> 48,
     MethodDebugInformation |-> 49, LocalScope |-> 50, LocalVariable |-> 51,
     LocalConstant |-> 52, ImportScope |-> 53, StateMachineMethod |-> 54,
     CustomDebugInformation |-> 55]

\* the tables of a kind's set
TablesOf(kind) ==
    {CodedSet(kind).set[i] : i \in 1 .. Len(CodedSet(kind).set)} \ {"-"}

\* the token of table T with row number row
TokenOf(T, row) == BitOr(TableId[T] * 2 ^ 24, row)

\* the token kind that names table T: the one whose tag byte is T's id
TokenKindOf(T) ==
    CHOOSE tk \in TokenKinds : MetadataTokenKind[tk] = TableId[T] * 2 ^ 24

\* C5: for every kind K, every table T in set(K) and every row number from 1
\* to 2^24 - 1, decode(K) applied to encode(row, T, K) yields the token of
\* table T with that row number.
C5_DecodeEncodeInverse ==
    (/\ tok.op = "decode"
     /\ ci.how = "encode"
     /\ tok.kind = ci.kind
     /\ ci.row >= 1
     /\ \E T \in TablesOf(ci.kind) : ci.tk = TokenKindOf(T)) =>
        LET T == CHOOSE T \in TablesOf(ci.kind) : ci.tk = TokenKindOf(T)
        IN  tok.some /\ tok.v = TokenOf(T, ci.row)

\* the tag and the row number a coded value carries under kind K
TagOf(v, kind) == v % 2 ^ CodedSet(kind).bits
RowOf(v, kind) == v \div 2 ^ CodedSet(kind).bits
TagValid(v, kind) ==
    /\ TagOf(v, kind) < Len(CodedSet(kind).set)
    /\ CodedSet(kind).set[TagOf(v, kind) + 1] # "-"

\* C6: for every kind K and every coded value v with a valid tag, decode
\* produces the token (table_tag_byte(set(K)[tag]) << 24) | (v >> bits(K)).
\* Stated for the coded values that carry a row number (v >> bits(K) >= 1);
\* row 0 is the null reference, which MetadataToken::new maps to token 0.
C6_DecodeToken ==
    (/\ tok.op = "decode"
     /\ TagValid(ci.v, tok.kind)
     /\ RowOf(ci.v, tok.kind) >= 1) =>
        /\ tok.some
        /\ tok.v = TokenOf(CodedSet(tok.kind).set[TagOf(ci.v, tok.kind) + 1],
                           RowOf(ci.v, tok.kind))

\* C7: decode(K) yields no token, which its callers report as InvalidData,
\* for every coded value whose tag is >= len(set(K)); for CustomAttributeType
\* the valid tags are exactly 2 and 3.
C7_InvalidTagFails ==
    tok.op = "decode" =>
        /\ TagOf(ci.v, tok.kind) >= Len(CodedSet(tok.kind).set) =>
               ~tok.some /\ tok.err = "InvalidData"
        /\ tok.kind = "CustomAttributeType" =>
               (tok.some <=> TagOf(ci.v, tok.kind) \in {2, 3})

\* C7 witness: CustomAttributeType was decoded from a value with tag 1 and
\* from one with a tag past the end of a three-table set.
C7_Witness ==
    /\ tok.op = "decode"
    /\ ~tok.some
    /\ \/ tok.kind = "CustomAttributeType" /\ TagOf(ci.v, tok.kind) = 1
       \/ tok.kind = "TypeDefOrRef" /\ TagOf(ci.v, tok.kind) = 3

-----------------------------------------------------------------------------
(* Claims about index widths, checked under SpecHeap *)

\* max{row_count(T) : T in set(K)} over the set of spec section 6.1
MaxRowsOfSet(kind) ==
    LET counts == {row_count(valid, rows, T) : T \in TablesOf(kind)}
    IN  CHOOSE m \in counts : \A c \in counts : c <= m

\* C8: get_size(K) returns width 2 exactly when
\* max{row_count(T) : T in set(K)} < 2^(16 - bits(K)), and width 4 otherwise.
C8_CodedIndexWidth ==
    width.op = "get_size" =>
        \A kind \in CodedIndexKind :
            width.size[kind] =
                IF MaxRowsOfSet(kind) < 2 ^ (16 - CodedSet(kind).bits)
                THEN 2 ELSE 4

\* C8 witness: a kind with two tables present was sized at a maximum row
\* count of exactly 2^(16 - bits(K)) and came out 4 bytes wide, and another
\* kind of the same heap, with fewer tag bits, came out 2 bytes wide.
C8_Witness ==
    /\ width.op = "get_size"
    /\ \E kind \in CodedIndexKind :
          /\ Cardinality({T \in TablesOf(kind) : has_table(valid, T)}) = 2
          /\ MaxRowsOfSet(kind) = 2 ^ (16 - CodedSet(kind).bits)
          /\ width.size[kind] = 4
    /\ \E kind \in CodedIndexKind :
          /\ MaxRowsOfSet(kind) > 0
          /\ width.size[kind] = 2

\* C9: idx_size(T) returns width 2 for every table with row_count(T) <= 65535,
\* absent tables included, and width 4 for row_count(T) >= 65536.
C9_SimpleIndexWidth ==
    width.op = "idx_size" =>
        \A table \in TableKinds :
            width.size[table] =
                IF row_count(valid, rows, table) <= 65535 THEN 2 ELSE 4

\* C9 witness: a table of exactly 65535 rows was sized and came out 2 bytes
\* wide, as did an absent table.
C9_Witness ==
    /\ width.op = "idx_size"
    /\ \E table \in TableKinds :
          /\ row_count(valid, rows, table) = 65535
          /\ width.size[table] = 2
    /\ \E table \in TableKinds :
          /\ ~has_table(valid, table)
          /\ width.size[table] = 2

-----------------------------------------------------------------------------
(* Claims about resolve_rva, checked under SpecRva *)

\* va + raw_size and rva - va + raw_pointer as the numbers they are, without
\* a width: three limbs <<carry, hi, lo>>
Wide(a) == <<0, a[1], a[2]>>
WideSum(a, b) ==
    LET sum == u32_add(a, b)
    IN  <<IF sum.overflow THEN 1 ELSE 0, sum.val[1], sum.val[2]>>
WideLt(a, b) ==
    \/ a[1] < b[1]
    \/ a[1] = b[1] /\ a[2] < b[2]
    \/ a[1] = b[1] /\ a[2] = b[2] /\ a[3] < b[3]

\* va <= rva < va + raw_size
SectionContains(s, r) ==
    /\ u32_ge(r, s.virtual_address)
    /\ WideLt(Wide(r), WideSum(s.virtual_address, s.size_of_raw_data))

\* rva - va + raw_pointer, for a section that contains rva
OffsetIn(s, r) == WideSum(u32_sub(r, s.virtual_address).val, s.pointer_to_raw_data)

\* C10: resolve_rva(rva, sections) returns rva - va + raw_pointer for a section
\* with va <= rva < va + raw_size, and fails with OffsetOutOfBounds when no
\* section contains rva.
C10_ResolveRva ==
    offset.op = "resolve_rva" =>
        IF \E i \in 1 .. Len(sections) : SectionContains(sections[i], rva)
        THEN /\ offset.err = "None"
             /\ \E i \in 1 .. Len(sections) :
                   /\ SectionContains(sections[i], rva)
                   /\ Wide(offset.val) = OffsetIn(sections[i], rva)
        ELSE offset.err = "OffsetOutOfBounds"

\* The example of C10: with the one section va = 0x2000, raw_size = 0x400,
\* raw_pointer = 0x200, RVA 0x2000 maps to 0x200, 0x23FF to 0x5FF, 0x2400 fails.
C10_Example ==
    (/\ offset.op = "resolve_rva"
     /\ sections = <<SectionHeader(U32(0, 8192), U32(0, 1024), U32(0, 512))>>) =>
        /\ rva = U32(0, 8192) => offset.err = "None" /\ offset.val = U32(0, 512)
        /\ rva = U32(0, 9215) => offset.err = "None" /\ offset.val = U32(0, 1535)
        /\ rva = U32(0, 9216) => offset.err = "OffsetOutOfBounds"

\* C10 holds wherever no sum leaves u32: no section at or below rva ends past
\* 2^32, and rva - va + raw_pointer of the sections containing rva fits.
C10_NoOverflow ==
    (/\ offset.op = "resolve_rva"
     /\ \A i \in 1 .. Len(sections) :
           /\ u32_ge(rva, sections[i].virtual_address) =>
                 ~u32_add(sections[i].virtual_address, sections[i].size_of_raw_data).overflow
           /\ SectionContains(sections[i], rva) => OffsetIn(sections[i], rva)[1] = 0) =>
        IF \E i \in 1 .. Len(sections) : SectionContains(sections[i], rva)
        THEN /\ offset.err = "None"
             /\ \E i \in 1 .. Len(sections) :
                   /\ SectionContains(sections[i], rva)
                   /\ Wide(offset.val) = OffsetIn(sections[i], rva)
        ELSE offset.err = "OffsetOutOfBounds"

-----------------------------------------------------------------------------
(* Claims about table views, checked under SpecTable *)

\* the row at byte offset off of the table slice: its columns, little-endian
RECURSIVE RowAt(_, _, _)
RowAt(t, off, k) ==
    IF k > Len(t.cols) THEN <<>>
    ELSE <<LE(SubSeq(t.bytes, off + 1, off + t.cols[k]))>>
            \o RowAt(t, off + t.cols[k], k + 1)

C12_GetOutOfRange ==
    (viewRow.op = "get" /\ (viewRow.index = 0 \/ viewRow.index > table_len(view))) =>
        viewRow.err \notin {"None", "Panic"}


-----------------------------------------------------------------------------
(* Claims about row counts, checked under SpecMask *)

\* popcount(valid & (2^id - 1)): the bits of valid below bit id
PopcountBelow(v, id) == Cardinality({b \in v : b < id})

\* C13: row_count(T) is 0 when bit id(T) of valid is clear, and otherwise the
\* entry of the row-count vector at position popcount(valid & (2^id(T) - 1)),
\* for every valid mask, whatever other bits are set.
C13_RowCountByPopcount ==
    rowCount.op = "row_count" =>
        rowCount.rows = IF TableKind[rowCount.of] \notin valid THEN 0
                     ELSE rows[PopcountBelow(valid, TableKind[rowCount.of]) + 1]

\* C13 holds for the masks whose set bits all name tables.
C13_KnownBitsOnly ==
    (rowCount.op = "row_count" /\ valid \subseteq TableIds) =>
        rowCount.rows = IF TableKind[rowCount.of] \notin valid THEN 0
                     ELSE rows[PopcountBelow(valid, TableKind[rowCount.of]) + 1]


-----------------------------------------------------------------------------
(* Claims about opening an image, checked under SpecImage *)

\* C14: MetadataHeader::new fails with InvalidData whenever the 32-bit value
\* at the root offset is not 0x424A5342 ("BSJB"), and constructs a root only
\* when it equals 0x424A5342.
C14_RootSignatureValidated ==
    (opened.op = "try_from" /\ opened.err = "None") =>
        SubSeq(image, opened.root + 1, opened.root + 4) = SigRoot

\* C15: try_from validates the four bytes at file offset lfanew: if they are
\* not 50 45 00 00 it fails with InvalidData, and if they are the signature
\* check passes.
C15_PeSignatureAtLfanew ==
    (opened.op = "try_from" /\ layout.cut = ImageLen(layout)) =>
        IF SubSeq(image, layout.lfanew + 1, layout.lfanew + 4) = SigPe
        THEN opened.stage # "PeHeader.magic"
        ELSE opened.err = "InvalidData"

\* the range of stream header s lies inside the image of layout l
StreamInside(l, s) == s.where = "in" /\ l.cut = ImageLen(l)

\* C18: get_heap(kind) returns absent when no stream header carries the
\* kind's name, and the sub-slice image[root + offset .. root + offset + size]
\* of the first one that does; when that range does not lie inside the image
\* it returns an error value and does not panic.
C18_GetHeap ==
    heapRes.op = "get_heap" =>
        LET named == {i \in 1 .. Len(layout.streams) : layout.streams[i].name = heapRes.name}
        IN  IF named = {} THEN heapRes.err = "None" /\ ~heapRes.some
            ELSE LET s == layout.streams[CHOOSE i \in named : \A j \in named : i <= j]
                 IN  IF StreamInside(layout, s)
                     THEN /\ heapRes.err = "None"
                          /\ heapRes.some
                          /\ heapRes.val = SubSeq(image, RootEnd(layout) + 1, RootEnd(layout) + 8)
                     ELSE heapRes.err \notin {"None", "Panic"}

\* The part of C18 about ranges inside the image: absent without a header of
\* that name, else the sub-slice of the first header that carries it.
C18_InsideImage ==
    (heapRes.op = "get_heap" /\ \A i \in 1 .. Len(layout.streams) : StreamInside(layout, layout.streams[i])) =>
        /\ heapRes.err = "None"
        /\ heapRes.some = (\E i \in 1 .. Len(layout.streams) : layout.streams[i].name = heapRes.name)
        /\ heapRes.some => heapRes.val = StreamData

\* the byte at which the image was cut off lies inside the DOS stub, the PE
\* headers, the section table, the CLI header or the metadata root
CutInside(l) ==
    \/ l.cut < CliEnd(l)
    \/ RootAt(l) <= l.cut /\ l.cut < RootEnd(l)

\* C19: try_from on an image cut off inside the DOS stub, PE headers, section
\* table, CLI header or metadata root returns an error value; it never panics
\* and never reads outside the buffer.
C19_TruncatedImage ==
    (opened.op = "try_from" /\ CutInside(layout)) =>
        /\ opened.err \notin {"None", "Panic"}
        /\ ~opened.oob

\* C19 witness: an image the reader would open was cut off inside the
\* metadata root, and the read that passes the end failed.
C19_Witness ==
    /\ opened.op = "try_from"
    /\ layout.lfanew = PeAt - 4
    /\ RootAt(layout) < layout.cut
    /\ layout.cut < RootEnd(layout)
    /\ opened.err = "UnexpectedEndOfStream"
    /\ opened.stage = "root.streams"

\* An image cut off between the CLI header and the metadata root.
C19_CutInGap ==
    (opened.op = "try_from" /\ layout.cut < ImageLen(layout)) =>
        opened.err \notin {"None", "Panic"}


-----------------------------------------------------------------------------
(* Claims about the string heap, checked under SpecString *)

\* C16: get_string(idx) returns the bytes from idx up to (not including) the
\* next 0x00 for every idx inside the heap, and for every idx beyond the end
\* yields an InvalidData error instead of panicking.
C16_GetString ==
    stringRes.op = "get_string" =>
        /\ stringRes.index < Len(stringBytes) =>
            /\ stringRes.err = "None"
            /\ \A i \in 1 .. Len(stringRes.val) :
                /\ stringRes.val[i] = stringBytes[stringRes.index + i]
                /\ stringRes.val[i] # 0
            /\ stringRes.index + Len(stringRes.val) < Len(stringBytes) =>
                stringBytes[stringRes.index + Len(stringRes.val) + 1] = 0
        /\ stringRes.index > Len(stringBytes) => stringRes.err = "InvalidData"

\* The part of C16 about indices inside the heap.
C16_InsideHeap ==
    (stringRes.op = "get_string" /\ stringRes.index < Len(stringBytes)) =>
        /\ stringRes.err = "None"
        /\ stringRes.val = UntilNul(SubSeq(stringBytes, stringRes.index + 1, Len(stringBytes)))


-----------------------------------------------------------------------------
(* Claims about get_table, checked under SpecGetTable *)

\* C17: get_table never panics: for every valid mask, also one that holds
\* kinds with no row schema, requesting a supported table returns a table
\* view, absent, or an error value.
C17_GetTableNeverPanics ==
    got.op = "get_table" => got.err # "Panic"

\* get_table does not panic when every kind present in the mask has a row
\* schema.
C17_SchemasOnly ==
    (got.op = "get_table" /\ \A b \in valid \cap TableIds : KindOf(b) \in Schemas) =>
        got.err # "Panic"


-----------------------------------------------------------------------------
(* Claims about types, checked under SpecTypes *)

\* the end of row i's range in a table of n rows: the next TypeDef row's
\* index, one past the last row for the last TypeDef row
RangeEnd(i, next, n) == IF i < Len(typeDefs) THEN next ELSE n + 1

\* the fields and methods a type holds
FieldsOf(ty) == IF "fields" \in DOMAIN ty THEN ty.fields ELSE <<>>
MethodsOf(ty) == IF "methods" \in DOMAIN ty THEN ty.methods ELSE <<>>

\* C20: the fields owned by TypeDef row i are exactly the Field rows in
\* [row[i].fields, row[i+1].fields), up to len(Field) for the last row; the
\* same holds for methods with MethodDef; the range is empty if and only if
\* its two bounding indices are equal.
C20_OwnershipRanges ==
    \A i \in 1 .. Len(types) :
        types[i] # Void =>
            LET fend == RangeEnd(i, IF i < Len(typeDefs) THEN typeDefs[i + 1].fields ELSE 0, fieldLen)
                mend == RangeEnd(i, IF i < Len(typeDefs) THEN typeDefs[i + 1].methods ELSE 0, methodLen)
            IN  /\ FieldsOf(types[i]) = IndexRange(typeDefs[i].fields, fend)
                /\ MethodsOf(types[i]) = IndexRange(typeDefs[i].methods, mend)
                /\ (FieldsOf(types[i]) = <<>>) <=> (typeDefs[i].fields = fend)
                /\ (MethodsOf(types[i]) = <<>>) <=> (typeDefs[i].methods = mend)

\* Every type read from a TypeDef row holds no fields.
C20_FieldsEmpty ==
    \A i \in 1 .. Len(types) : FieldsOf(types[i]) = <<>>


-----------------------------------------------------------------------------
(* Claims about assembly references, checked under SpecRefs *)

\* C21: the hash_value reported for a referenced assembly is the blob found
\* at the AssemblyRef row's own hash_value index, whatever the row's
\* public_key index is.
C21_HashValueFromOwnIndex ==
    (dependency.op = "read_assembly_refs" /\ dependency.err = "None") =>
        LET own == get_blob(blobBytes, assRef.hash_value)
        IN  /\ own.err = "None"
            /\ dependency.hash_value = own.val

\* The public_key reported is the blob at the row's public_key index.
C21_PublicKey ==
    (dependency.op = "read_assembly_refs" /\ dependency.err = "None") =>
        dependency.public_key = get_blob(blobBytes, assRef.public_key).val


-----------------------------------------------------------------------------
(* Claims about concurrent readers, checked under SpecReaders *)

\* what an iterator that runs alone has yielded after n calls of next()
AloneItems(t, n) ==
    [r \in 1 .. n |-> [err |-> "None", val |-> RowAt(t, (r - 1) * table_row_size(t), 1)]]

\* every iterator has yielded what it yields alone, and stands behind its
\* last row
C22_SameSequence ==
    \A i \in DOMAIN iters :
        /\ iters[i].items = AloneItems(view, Len(iters[i].items))
        /\ iters[i].position = Len(iters[i].items) * table_row_size(view)
        /\ iters[i].done => Len(iters[i].items) = table_len(view)

\* a step changes at most one iterator, and a get changes none
C22_CursorsLocal ==
    /\ viewRow' # viewRow => iters' = iters
    /\ \A i, j \in DOMAIN iters : (iters'[i] # iters[i] /\ j # i) => iters'[j] = iters[j]
    /\ view' = view

\* C22: under any interleaving of next() calls on several iterators over one
\* table view and of get(r) calls on that view, each iterator yields the same
\* row sequence as when it runs alone, and neither a get call nor another
\* iterator's advance changes an iterator's cursor position.
C22_ReadersIndependent == []C22_SameSequence /\ [][C22_CursorsLocal]_vars

\* C22 witness: one iterator has finished a table of several rows, another
\* has yielded one row, and a row was fetched with get.
C22_Witness ==
    /\ MaxIters >= 2
    /\ table_len(view) >= 2
    /\ iters[1].done
    /\ Len(iters[2].items) = 1
    /\ viewRow.op = "get"
    /\ viewRow.err = "None"

-----------------------------------------------------------------------------
(* Claims about the table slices and the table rows *)

\* the slice the claim gives table T: from 24 + 4 * popcount(valid) + the
\* bytes of the present tables of smaller id, row_count * row_width bytes
SliceOf(T) ==
    LET from == TablesEnd({b \in valid : b < TableKind[T]}, valid, rows, heapSizes)
    IN  [from |-> from,
         to |-> from + row_count(valid, rows, T) * calc_row_size(T, heapSizes, valid, rows)]

C24_ParseRowConsumesRowSize ==
    \A i \in DOMAIN rowIter.items :
        rowIter.items[i].err = "None"
            => rowIter.items[i].consumed = GotView(rowIter.impl).row_size

\* the rows of the table types of cli-toolkit take row_size bytes
C24_DerivedRows ==
    rowIter.impl = Derive => C24_ParseRowConsumesRowSize

\* C27: iter() on a view get_table returned yields len() = bytes.len() /
\* row_size items, every one a decoded row, and then ends, for every kind and
\* every number of rows
C27_IterYieldsLen ==
    /\ rowIter.impl = Derive /\ rowIter.done
           => Len(rowIter.items) = MetadataTable_len(GotView(Derive))
    /\ rowIter.impl = Derive
           => \A i \in DOMAIN rowIter.items : rowIter.items[i].err = "None"

\* the derived iterators yield len() decoded rows
C27_DerivedIterators ==
    got.of \notin HandWritten => C27_IterYieldsLen

\* C28: TypeRef.resolution_scope is read with, and counted in the row size
\* as, the width of a ResolutionScope coded index
C28_ResolutionScopeWidth ==
    got.op = "get_table" /\ got.of = "TypeRef" =>
        /\ GotView(Derive).cols[1] = get_size("ResolutionScope", valid, rows)
        /\ GotView(Derive).row_size =
               get_size("ResolutionScope", valid, rows)
                   + 2 * heap_idx_size(heapSizes, "String")

\* the width read is the width counted, that of a TypeOrMethodDef index
C28_TypeOrMethodDefWidth ==
    got.op = "get_table" /\ got.of = "TypeRef" =>
        /\ GotView(Derive).cols[1] = get_size("TypeOrMethodDef", valid, rows)
        /\ GotView(Derive).row_size =
               get_size("TypeOrMethodDef", valid, rows)
                   + 2 * heap_idx_size(heapSizes, "String")

-----------------------------------------------------------------------------
(* Claims about the cursor after a failed operation *)

\* C26: every ByteStream operation that returns an error leaves the position
\* where it was before the call
C26_FailureKeepsPosition ==
    res.err \notin {"None", "Panic"} => position = res.prev

\* the operations that test before they move keep the position when they fail
C26_TestedFirst ==
    res.op \in {"seek", "skip", "read", "read_ref", "read_slice"}
        => C26_FailureKeepsPosition


-----------------------------------------------------------------------------
(* Claims about the metadata root *)

\* the declared length covers the version string and its NUL
LengthCoversVersion(l) == l.length >= Len(l.version) + 1

\* the padding the claim gives a name of n bytes
StreamNamePad(n) == (4 - ((n + 1) % 4)) % 4

\* the offset, within the stream headers, of the header behind the first k
HeaderOffset(l, k) ==
    SumSeq([i \in 1 .. k |-> 8 + Len(l.names[i]) + 1 + StreamNamePad(Len(l.names[i]))])

\* C25: for names of 0 to 7 bytes the scan of MetadataHeader::new and
\* StreamHeaderIterator::next both skip (4 - ((name_len + 1) mod 4)) mod 4
\* bytes behind the name and its NUL: the scan ends behind the last padded
\* header, every header the iterator yields starts at a multiple of 4 within
\* the stream headers and carries its name, and the iterator yields exactly
\* stream_count headers
C25_StreamHeaderPadding ==
    LengthCoversVersion(rootLayout) /\ rootHeader.op # "new" =>
        /\ rootHeader.err = "None"
        /\ rootHeader.header.stream_count = Len(rootLayout.names)
        /\ Len(rootHeader.header.streams)
               = HeaderOffset(rootLayout, Len(rootLayout.names))
        /\ \A i \in DOMAIN rootIter.items :
              /\ rootIter.items[i].err = "None"
              /\ rootIter.items[i].at = HeaderOffset(rootLayout, i - 1)
              /\ rootIter.items[i].at % 4 = 0
              /\ rootIter.items[i].name = rootLayout.names[i]
        /\ rootIter.done =>
              /\ Len(rootIter.items) = rootHeader.header.stream_count
              /\ rootIter.position = Len(rootHeader.header.streams)

\* the iterator ended after two headers whose names need different padding
C25_Witness ==
    /\ LengthCoversVersion(rootLayout)
    /\ rootIter.done
    /\ Len(rootIter.items) = 2
    /\ Len(rootLayout.names[1]) = 2
    /\ Len(rootLayout.names[2]) = 7

\* C29: a declared length smaller than the version string and its NUL makes
\* MetadataHeader::new return an error value: it neither panics nor succeeds
C29_ShortLengthIsError ==
    rootHeader.op # "new" /\ ~LengthCoversVersion(rootLayout)
        => rootHeader.err \notin {"None", "Panic"}

\* with a length that covers the version the cursor stands at version_start +
\* length: flags, stream_count and the stream headers are read from there
C29_CursorBehindVersion ==
    rootHeader.op # "new" /\ LengthCoversVersion(rootLayout) =>
        /\ rootHeader.err = "None"
        /\ rootHeader.header.length = rootLayout.length
        /\ rootHeader.header.version = rootLayout.version
        /\ rootHeader.header.stream_count = Len(rootLayout.names)
        /\ rootHeader.header.streams = RootStreamHeaders(rootLayout)


-----------------------------------------------------------------------------
(* Claims about the assembly reader *)

\* a call is running: it has not returned a value or an error
Running == readResult.op = "read_assembly" /\ readResult.res = "-"

\* C30: every call of read_assembly returns, whatever the AssemblyRef
\* dependencies of the known assemblies are, cycles included, and a Loaded
\* entry is never loaded again
C30_ReadAssemblyTerminates ==
    /\ Running ~> (readResult.res \in {"Ok", "AssemblyNotFound", "InvalidAssembly"})
    /\ [][\A i \in DOMAIN entries :
              entries[i] = "Loaded" => entries'[i] = "Loaded" /\ loads'[i] = loads[i]]_vars

\* the entries a file names as dependencies
DependsOn(i) ==
    {find_entry(known, known[i].deps[k]) : k \in DOMAIN known[i].deps} \ {0}

\* the entries reached from S in at most n steps
RECURSIVE Reach(_, _)
Reach(S, n) ==
    IF n = 0 THEN S
    ELSE Reach(S \cup UNION {DependsOn(i) : i \in S}, n - 1)

\* some file depends on itself, directly or through others
Cyclic == \E i \in DOMAIN known : i \in Reach(DependsOn(i), Len(known))

\* without a dependency cycle every call returns
C30_AcyclicTerminates ==
    ~Cyclic => (Running ~> (readResult.res \in {"Ok", "AssemblyNotFound", "InvalidAssembly"}))

\* a Loaded entry stays Loaded and its file is not read again
C30_LoadedIsCached ==
    [][\A i \in DOMAIN entries :
          entries[i] = "Loaded" => entries'[i] = "Loaded" /\ loads'[i] = loads[i]]_vars

=============================================================================
